---- MODULE Spec2Model ----
(***************************************************************************)
(* Model of relations_sqlite3.Source (src/lib/relations_sqlite3.py).       *)
(*                                                                         *)
(* Part 1: the migration ledger runner, Source.migrate, with Source.load   *)
(* and Source.execute as it uses them.  File names are sequences of       *)
(* character codes, so that sorting the paths and cutting the stamp out   *)
(* of a path are computed as Python computes them.                         *)
(***************************************************************************)
EXTENDS Integers, Sequences, FiniteSets, TLC

\* ------------------------------------------------------------------ bounds
\* number of migrate runs a behaviour may start
MaxRuns ==
    3

\* number of commands in every .sql file (baseline and payloads)
NumStmts ==
    2

\* number of migration files the directory may hold
MaxFiles ==
    2

\* ------------------------------------------------------- strings and paths
\* "definition": the marker row added by the cold start
DefinitionMarker ==
    <<100, 101, 102, 105, 110, 105, 116, 105, 111, 110>>

\* ".sql", the part of a path that follows the * of migration-*.sql
SqlSuffix ==
    <<46, 115, 113, 108>>

\* the character "."
Dot ==
    46

\* The * of the migration-*.sql files the directory may come to hold:
\* "1", "2", "1-1", "1.x" and "definition".
Bodies ==
    { <<49>>, <<50>>, <<49, 45, 49>>, <<49, 46, 120>>, DefinitionMarker }

\* the name of the baseline file, definition.sql; not a migration-*.sql body
Baseline ==
    <<>>

Min(a, b) ==
    IF a < b THEN a ELSE b

\* Python's < on str: code point by code point, a proper prefix is smaller
LexLess(s, t) ==
    \/ /\ Len(s) < Len(t)
       /\ SubSeq(t, 1, Len(s)) = s
    \/ \E i \in 1..Min(Len(s), Len(t)) :
          /\ s[i] < t[i]
          /\ \A j \in 1..(i - 1) : s[j] = t[j]

\* the path of a migration file; the directory and "/migration-" are the
\* prefix every path shares, so they are left out
PathOf(body) ==
    body \o SqlSuffix

\* text.split('.')[0]
SplitDotFirst(text) ==
    IF \E i \in 1..Len(text) : text[i] = Dot
    THEN LET first == CHOOSE i \in 1..Len(text) :
                          /\ text[i] = Dot
                          /\ \A j \in 1..(i - 1) : text[j] # Dot
         IN  SubSeq(text, 1, first - 1)
    ELSE text

\* migration_path.rsplit("/migration-", 1)[-1].split('.')[0]
StampOf(body) ==
    SplitDotFirst(PathOf(body))

\* the order sorted() gives to two paths
PathBefore(a, b) ==
    LexLess(PathOf(a), PathOf(b))

\* sorted(glob.glob(f"{source_path}/migration-*.sql")), as the bodies
SortedPaths(F) ==
    CHOOSE s \in [1..Cardinality(F) -> F] :
        /\ \A i, j \in 1..Cardinality(F) : i < j => PathBefore(s[i], s[j])

\* NotIn with the test left out: every path is taken as new
NotInAlways(stamp, stamps) ==
    TRUE

\* stamp not in stamps
NotIn(stamp, stamps) ==
    \A i \in 1..Len(stamps) : stamps[i] # stamp

\* IsEmpty with the test left out: every run is taken as a cold start
IsEmptyAlways(stamps) ==
    TRUE

\* not stamps
IsEmpty(stamps) ==
    Len(stamps) = 0

\* InsertRows replacing the rows of the table instead of adding to them
InsertRowsReplacing(committed, rows) ==
    rows

\* InsertRows with the rows never committed
InsertRowsRolledBack(committed, rows) ==
    committed

\* INSERT INTO _relations_migration ... followed by commit, on the rows
\* committed so far
InsertRows(committed, rows) ==
    committed \o rows

\* AfterLoad with the assignment forgotten
AfterLoadKeeping(flag) ==
    flag

\* migrated = True, after a load that returned
AfterLoad(flag) ==
    TRUE

\* return migrated
Returned(flag) ==
    IF flag THEN "true" ELSE "false"

\* BulkRows with the loop over migration_paths forgotten
BulkRowsMarkerOnly(paths) ==
    <<DefinitionMarker>>

\* BulkRows with the marker row forgotten
BulkRowsWithoutMarker(paths) ==
    [i \in 1..Len(paths) |-> StampOf(paths[i])]

\* the rows Migration().bulk().add("definition").add(stamp)... holds
BulkRows(paths) ==
    <<DefinitionMarker>> \o [i \in 1..Len(paths) |-> StampOf(paths[i])]

\* longest text handed to execute as a string
MaxText ==
    4

\* text.split(";\n"), on a text of character codes: the parts between the
\* occurrences of ";\n", of which the last is what follows the last one
RECURSIVE Split(_)
Split(text) ==
    LET At(i) == text[i] = 59 /\ text[i + 1] = 10
    IN  IF \E i \in 1..(Len(text) - 1) : At(i)
        THEN LET first == CHOOSE i \in 1..(Len(text) - 1) :
                              At(i) /\ \A j \in 1..(i - 1) : ~At(j)
             IN  <<SubSeq(text, 1, first - 1)>>
                 \o Split(SubSeq(text, first + 2, Len(text)))
        ELSE <<text>>

\* The commands load() hands to execute(): the file's text split on ";\n".
\* Every file holds NumStmts statements "s", each ended by ";\n", so the
\* split leaves one blank command after the last statement.
Commands(file) ==
    Split([i \in 1..(3 * NumStmts) |-> <<115, 59, 10>>[((i - 1) % 3) + 1]])

\* not command.strip(): the command holds nothing but spaces and newlines
IsBlank(command) ==
    \A i \in 1..Len(command) : command[i] \in {32, 10}

\* ---------------------------------------------------------------- retrieve
\* Part 2: Source.retrieve on a model of a table {id, name}.
\* None is <<>> and any other value v is <<v>>.
None ==
    <<>>

Some(v) ==
    <<v>>

\* number of rows the table may hold
MaxRows ==
    3

\* largest limit a model may be given
MaxLimit ==
    2

Names ==
    {"people", "stuff"}

\* the record of a model that has not been retrieved: it holds the criteria
Criteria(names) ==
    [action |-> "retrieve", criteria |-> names, values |-> None]

\* model._build("update", _read=values)
Build(action, values) ==
    [action |-> action, criteria |-> {}, values |-> Some(values)]

\* the models a model may be when retrieve is called on it:
\* Unit.one(...), Unit.many(...), a child of either mode, with or without a
\* limit and a sort
Models ==
    [_mode : {"one", "many"},
     _role : {"model", "child"},
     _action : {"retrieve"},
     _record : {Some(Criteria(names)) : names \in SUBSET Names},
     _models : {None},
     _limit : {None} \cup {Some(l) : l \in 1..MaxLimit},
     _sort : {None, Some("+name")},
     overflow : {FALSE}]

NoCall ==
    [verify |-> TRUE, before |-> None, rows |-> 0, ended |-> "none"]

\* ------------------------------------ create, update, delete: the models
\* most rows a table may hold
MaxStored ==
    2

\* most children a record may be given
MaxKids ==
    1

\* the elements of a set of numbers, in ascending order
Ascending(S) ==
    [k \in 1..Cardinality(S) |-> CHOOSE x \in S : Cardinality({y \in S : y < x}) = k - 1]

\* a record of Simple or of Plain: its action, its id (None until the
\* database assigns one; Plain has no id field) and the actions of the
\* Plain children added to it
Record(action, id, kids) ==
    [_action |-> action, id |-> id, kids |-> kids]

\* simple.plain.add(...): k children that are yet to be created
Kids(k) ==
    [j \in 1..k |-> "create"]

\* the records of a model that is yet to be created
NewRecords(STORE) ==
    UNION {[1..n -> {Record("create", None, Kids(k)) :
                        k \in IF STORE = "simple" THEN 0..MaxKids ELSE {0}}] :
           n \in 1..MaxStored}

\* Simple("sure"), Simple.many(...), Simple.bulk().add("ya"), Plain(0, "nope"):
\* Simple has the auto id field id, Plain has ID = None
Creating ==
    {m \in [STORE : {"simple", "plain"}, _id : {None, Some("id")}, _bulk : BOOLEAN,
            _mode : {"one", "many"}, _action : {"create"}, _record : {"create"},
            criteria : {None}, records : NewRecords("simple")] :
        /\ m._id = None <=> m.STORE = "plain"
        /\ m._mode = "one" => Len(m.records) = 1 /\ ~m._bulk
        /\ m.records \in NewRecords(m.STORE)}

\* Simple.one(...), Simple.many(...), Plain.one(...), Plain.many(...), with
\* or without set(...): _record is model._record._action, and criteria the
\* ids the filter criteria select, None when no criterion was given, as
\* none is given to Plain
Retrieving ==
    {m \in [STORE : {"simple", "plain"}, _id : {None, Some("id")}, _bulk : {FALSE},
            _mode : {"one", "many"}, _action : {"retrieve"},
            _record : {"retrieve", "update"},
            criteria : {None} \cup {Some(ids) : ids \in SUBSET (1..MaxStored)},
            records : {<<>>}] :
        /\ m._id = None <=> m.STORE = "plain"
        /\ m.STORE = "plain" => m.criteria = None}

NoWrite ==
    [op |-> "none", before |-> None, ended |-> "none", statements |-> <<>>,
     changed |-> {}, returned |-> 0]

\* -------------------------------------------------------------- predicates
\* most values a list given to in or ne may hold
MaxValues ==
    3

\* "_"
Underscore ==
    95

\* "__"
Separator ==
    <<Underscore, Underscore>>

\* the operators "eq", "in", "like" and "null"
Operators ==
    {<<101, 113>>, <<105, 110>>, <<108, 105, 107, 101>>, <<110, 117, 108, 108>>}

\* nested paths of a structured field: "a", "a_", "a__b", "a__b__0___1"
\* and "like", a key of the structure that is spelled as an operator is
NestedPaths ==
    {<<97>>, <<97, 95>>, <<97, 95, 95, 98>>,
     <<97, 95, 95, 98, 95, 95, 48, 95, 95, 95, 49>>, <<108, 105, 107, 101>>}

\* the key of a criterion in field.criteria: the operator, after the nested
\* path when the criterion has one (<<>> when it has none); default
\* equality is kept under the operator "eq"
CriterionKey(path, operator) ==
    IF path = <<>> THEN operator ELSE path \o Separator \o operator

\* operator.rsplit("__", 1)[0]: what is left of the last "__", the whole
\* text when there is none
RSplitFirst(text) ==
    LET at == {i \in 1..(Len(text) - 1) :
                  text[i] = Underscore /\ text[i + 1] = Underscore}
    IN  IF at = {} THEN text
        ELSE SubSeq(text, 1, (CHOOSE i \in at : \A j \in at : j <= i) - 1)

\* retrieve_field, for one criterion of a field: the name and EXTRACTED
\* handed to self.OP
RetrieveField(store_, key, extract) ==
    [name |-> store_ \o Separator \o key,
     extracted |-> RSplitFirst(key) \in extract]

\* an in that compiles an empty list as any other
InOfPlain(values, exclusion) ==
    [sql |-> IF exclusion THEN "NOT IN" ELSE "IN", placeholders |-> Len(values),
     binds |-> values]

\* the fragment of a set-membership (in) or set-exclusion (ne with a list)
\* predicate: "col IN (?,...)" or "col NOT IN (?,...)" with one placeholder
\* and one bind for each value; "FALSE" or "TRUE" with no binds for an
\* empty list
InOf(values, exclusion) ==
    IF values = <<>>
    THEN [sql |-> IF exclusion THEN "TRUE" ELSE "FALSE", placeholders |-> 0,
          binds |-> <<>>]
    ELSE [sql |-> IF exclusion THEN "NOT IN" ELSE "IN", placeholders |-> Len(values),
          binds |-> values]

\* nothing compiled yet
NoPredicate ==
    [op |-> "none", path |-> <<>>, operator |-> <<>>, extract |-> {}, name |-> <<>>,
     extracted |-> FALSE, values |-> <<>>, exclusion |-> FALSE, sql |-> "",
     placeholders |-> 0, binds |-> <<>>]

\* ------------------------------------------------------ search: the models
\* relations.OneToMany(Unit, Test), relations.OneToOne(Test, Case)
Classes ==
    {"case", "test", "unit"}

\* no search made yet
NoSearch ==
    [op |-> "none", class |-> "unit", titles |-> <<>>, like |-> None, chunk |-> 1,
     limit |-> None, before |-> FALSE, predicates |-> <<>>, where |-> FALSE,
     overflow |-> FALSE, lookups |-> <<>>, rows |-> 0]

\* ------------------------------------------- definitions and migrations
\* most fields the fields.add of a migration may hold
MaxAdds ==
    2

\* the names the tests give to tables, fields and constraints, the
\* extraction paths "a" and "b__c", "-" and "_old_", as character codes
Str ==
    [simple |-> <<115, 105, 109, 112, 108, 101>>,
     simples |-> <<115, 105, 109, 112, 108, 101, 115>>,
     meta |-> <<109, 101, 116, 97>>,
     id |-> <<105, 100>>,
     name |-> <<110, 97, 109, 101>>,
     fie |-> <<102, 105, 101>>,
     foe |-> <<102, 111, 101>>,
     fee |-> <<102, 101, 101>>,
     fum |-> <<102, 117, 109>>,
     grab |-> <<103, 114, 97, 98>>,
     things |-> <<116, 104, 105, 110, 103, 115>>,
     toss |-> <<116, 111, 115, 115>>,
     push |-> <<112, 117, 115, 104>>,
     labels |-> <<108, 97, 98, 101, 108, 115>>,
     label |-> <<108, 97, 98, 101, 108>>,
     speedy |-> <<115, 112, 101, 101, 100, 121>>,
     speed |-> <<115, 112, 101, 101, 100>>,
     foe_fee |-> <<102, 111, 101, 45, 102, 101, 101>>,
     paths |-> << <<97>>, <<98, 95, 95, 99>> >>,
     dash |-> <<45>>,
     old |-> <<95, 111, 108, 100, 95>>]

\* a field of a definition: extract holds the declared sub-paths, inject is
\* set on a field that is stored inside another field
Field(name, kind, extract, inject) ==
    [name |-> name, store |-> name, kind |-> kind, extract |-> extract,
     inject |-> inject]

\* no constraints, nothing renamed, nothing changed
NoConstraints ==
    [n \in {} |-> <<>>]

\* Simple of test_model_change
SimpleDefinition ==
    [table |-> Str.simple,
     fields |-> << Field(Str.id, "int", <<>>, FALSE),
                   Field(Str.name, "str", <<>>, FALSE),
                   Field(Str.fie, "int", <<>>, FALSE),
                   Field(Str.foe, "int", <<>>, FALSE) >>,
     unique |-> (Str.foe :> <<Str.foe>>) @@ (Str.labels :> <<Str.name, Str.id>>),
     index |-> (Str.speedy :> <<Str.id, Str.name>>) @@ (Str.fie :> <<Str.fie>>)
               @@ (Str.name :> <<Str.name>>)]

\* Meta, by its fields things (extracted) and push (injected), with no
\* constraints
MetaDefinition ==
    [table |-> Str.meta,
     fields |-> << Field(Str.id, "int", <<>>, FALSE),
                   Field(Str.name, "str", <<>>, FALSE),
                   Field(Str.things, "dict", Str.paths, FALSE),
                   Field(Str.push, "str", <<>>, TRUE) >>,
     unique |-> NoConstraints,
     index |-> NoConstraints]

\* the fields a migration may add, in the order it lists them
Addable ==
    << Field(Str.fee, "int", <<>>, FALSE),
       Field(Str.grab, "dict", Str.paths, FALSE),
       Field(Str.toss, "str", <<>>, TRUE) >>

\* the columns of a field: its own, then one generated column
\* <store>__<path> for every extraction path; none for an injected field
Columns(field) ==
    IF field.inject
    THEN <<>>
    ELSE <<field.store>>
         \o [i \in 1..Len(field.extract) |-> field.store \o Separator \o field.extract[i]]

\* the columns of the fields, in the order of the fields
RECURSIVE ColumnsOf(_)
ColumnsOf(fields) ==
    IF fields = <<>>
    THEN <<>>
    ELSE Columns(Head(fields)) \o ColumnsOf(Tail(fields))

\* the members of a sequence
Range(s) ==
    {s[i] : i \in 1..Len(s)}

\* sorted(), on a set of strings
RECURSIVE Sorted(_)
Sorted(S) ==
    IF S = {}
    THEN <<>>
    ELSE LET least == CHOOSE x \in S : \A y \in S \ {x} : LexLess(x, y)
         IN  <<least>> \o Sorted(S \ {least})

\* the name of the index of a constraint: <table>_<name>, dashes folded
\* to underscores
IndexName(table_, name) ==
    table_ \o <<Underscore>>
    \o [i \in 1..Len(name) |-> IF <<name[i]>> = Str.dash THEN Underscore ELSE name[i]]

\* a statement of the compiled DDL: ALTER TABLE name ADD columns[1];
\* ALTER TABLE name RENAME TO to; DROP INDEX name; CREATE TABLE IF NOT
\* EXISTS name (columns); CREATE [UNIQUE] INDEX name ON to (columns), which
\* carries no IF NOT EXISTS; INSERT INTO name SELECT columns FROM to, each
\* column AS itself; DROP TABLE name
Ddl(op, name, to, columns) ==
    [op |-> op, guarded |-> (op = "CREATE TABLE"), name |-> name, to |-> to,
     columns |-> columns]

\* one CREATE [UNIQUE] INDEX for every constraint, in the order of the names
CreateIndexes(unique, table_, constraints) ==
    LET names == Sorted(DOMAIN constraints)
    IN  [i \in 1..Len(names) |->
            Ddl(IF unique THEN "CREATE UNIQUE INDEX" ELSE "CREATE INDEX",
                IndexName(table_, names[i]), table_, constraints[names[i]])]

\* one DROP INDEX for every constraint, in the order of the names
DropIndexes(table_, constraints) ==
    LET names == Sorted(DOMAIN constraints)
    IN  [i \in 1..Len(names) |-> Ddl("DROP INDEX", IndexName(table_, names[i]), <<>>, <<>>)]

\* the statements that create the table of a definition: CREATE TABLE IF
\* NOT EXISTS, then the unique indexes, then the indexes
TableCreate(definition) ==
    <<Ddl("CREATE TABLE", definition.table, <<>>, ColumnsOf(definition.fields))>>
    \o CreateIndexes(TRUE, definition.table, definition.unique)
    \o CreateIndexes(FALSE, definition.table, definition.index)

\* the field after a change
Changed(field, change) ==
    [field EXCEPT !.name = change.name,
                  !.kind = change.kind,
                  !.store = IF change.store = None THEN @ ELSE change.store[1]]

\* the first fields of a sequence whose positions are in a set
RECURSIVE Picked(_, _)
Picked(s, P) ==
    IF s = <<>>
    THEN <<>>
    ELSE LET rest == Picked(SubSeq(s, 1, Len(s) - 1), P)
         IN  IF Len(s) \in P THEN Append(rest, s[Len(s)]) ELSE rest

\* the fields of the definition that the migration keeps, changed as it
\* says
RECURSIVE Kept(_, _)
Kept(fields, migrated_) ==
    IF fields = <<>>
    THEN <<>>
    ELSE LET field == Head(fields)
             rest == Kept(Tail(fields), migrated_)
         IN  IF field.name \in migrated_.remove
             THEN rest
             ELSE IF field.name \in DOMAIN migrated_.change
                  THEN <<Changed(field, migrated_.change[field.name])>> \o rest
                  ELSE <<field>> \o rest

\* the constraints after a migration that rebuilds the table: those the
\* migration does not remove, under the names it renames them to.  What
\* the migration lists under add is not among them.
Constraints(constraints, migrated_) ==
    LET kept == DOMAIN constraints \ migrated_.remove
        Renamed(n) == IF n \in DOMAIN migrated_.rename
                      THEN migrated_.rename[n] ELSE n
    IN  [n \in {Renamed(k) : k \in kept} |->
            constraints[CHOOSE k \in kept : Renamed(k) = n]]

\* the definition after the migration
After(definition, migration) ==
    [table |-> IF migration.table = None
               THEN definition.table ELSE migration.table[1],
     fields |-> Kept(definition.fields, migration.fields) \o migration.fields.add,
     unique |-> Constraints(definition.unique, migration.unique),
     index |-> Constraints(definition.index, migration.index)]

\* a migration the definition can be given: it changes no field it
\* removes, removes the constraints on the columns it takes away, renames
\* none it removes and adds none on a column the table will not have
WellFormed(definition, migration) ==
    LET columns == Range(ColumnsOf(After(definition, migration).fields))
        OnMissing(constraints) ==
            {n \in DOMAIN constraints : ~(Range(constraints[n]) \subseteq columns)}
    IN
    /\ DOMAIN migration.fields.change \cap migration.fields.remove = {}
    /\ \A kind \in {"unique", "index"} :
          LET constraints == IF kind = "unique"
                             THEN definition.unique ELSE definition.index
              migrated_ == IF kind = "unique"
                           THEN migration.unique ELSE migration.index
          IN  /\ OnMissing(constraints)
                     \subseteq migrated_.remove
              /\ DOMAIN migrated_.rename \cap migrated_.remove = {}
              /\ OnMissing(migrated_.add) = {}

\* the migrations of the constraints of one kind: rename is one old name
\* and its new name, add is one new constraint
ConstraintMigrations(constraints, renames, adds) ==
    {[add |-> a, remove |-> r, rename |-> n] :
        a \in {NoConstraints} \cup adds,
        r \in SUBSET DOMAIN constraints,
        n \in {NoConstraints} \cup {m \in renames : DOMAIN m \subseteq DOMAIN constraints}}

\* the migrations a definition may be given: of any of its fields but id
\* and name; a change gives a field another name and kind, and keeps its
\* store or makes it "fum"
Migrations(definition) ==
    LET migratable == {definition.fields[i].name : i \in 3..Len(definition.fields)}
        changes == {[name |-> Str.fum, store |-> None, kind |-> "float"],
                    [name |-> Str.fum, store |-> Some(Str.fum), kind |-> "float"]}
        all ==
            {[table |-> t,
              fields |-> [add |-> Picked(Addable, P), remove |-> r, change |-> c],
              unique |-> u, index |-> x] :
                t \in {None} \cup (IF definition.table = Str.simple
                                   THEN {Some(Str.simples)} ELSE {}),
                P \in {Q \in SUBSET (1..Len(Addable)) : Cardinality(Q) <= MaxAdds},
                r \in SUBSET migratable,
                c \in {NoConstraints} \cup
                      UNION {[{f} -> changes] : f \in migratable},
                u \in ConstraintMigrations(definition.unique, {Str.labels :> Str.label},
                                           {Str.fee :> <<Str.fee>>}),
                x \in ConstraintMigrations(definition.index, {Str.speedy :> Str.speed},
                                           {Str.foe_fee :> <<Str.foe, Str.fee>>})}
    IN  {m \in all : WellFormed(definition, m)}

\* the name the table is given while it is rebuilt: _old_<table>
Old(table_) ==
    Str.old \o table_

\* Rebuilds taking every migration as one that rebuilds the table
RebuildsAlways(migration) ==
    TRUE

\* the migration needs the table rebuilt: it does more than add fields
Rebuilds(migration) ==
    \/ migration.table # None
    \/ migration.fields.remove # {}
    \/ DOMAIN migration.fields.change # {}
    \/ \E migrated_ \in {migration.unique, migration.index} :
          \/ DOMAIN migrated_.add # {}
          \/ migrated_.remove # {}
          \/ DOMAIN migrated_.rename # {}

\* Projection taking the columns of the new table as the table lists them
ProjectionOfNew(old, new) ==
    new

\* the columns INSERT ... SELECT copies: those the table being replaced
\* and the new table both have, sorted
Projection(old, new) ==
    Sorted(Range(old) \cap Range(new))

\* ALTER TABLE ... ADD for every column of the added fields
AlterAdds(table_, fields) ==
    LET columns == ColumnsOf(fields)
    IN  [i \in 1..Len(columns) |-> Ddl("ADD", table_, <<>>, <<columns[i]>>)]

\* the statements that rebuild the table: rename it, drop its indexes,
\* create the new table and its indexes, copy the rows, drop the old table
Rebuild(definition, migration) ==
    LET after == After(definition, migration)
        old == Old(definition.table)
    IN  <<Ddl("RENAME TO", definition.table, old, <<>>)>>
        \o DropIndexes(definition.table, definition.unique)
        \o DropIndexes(definition.table, definition.index)
        \o TableCreate(after)
        \o <<Ddl("INSERT SELECT", after.table, old,
                 Projection(ColumnsOf(definition.fields \o migration.fields.add),
                            ColumnsOf(after.fields)))>>
        \o <<Ddl("DROP TABLE", old, <<>>, <<>>)>>

\* Modify with the columns added after the table is rebuilt
ModifyAddingLast(definition, migration) ==
    (IF Rebuilds(migration) THEN Rebuild(definition, migration) ELSE <<>>)
    \o AlterAdds(definition.table, migration.fields.add)

\* the statements of a migration: the columns added, then the rebuild if
\* the migration needs one
Modify(definition, migration) ==
    AlterAdds(definition.table, migration.fields.add)
    \o (IF Rebuilds(migration) THEN Rebuild(definition, migration) ELSE <<>>)

\* most times the statements of a definition are executed
MaxExecutes ==
    2

\* what executing a statement that creates makes of the catalog: a table
\* or an index is added; IF NOT EXISTS makes the statement do nothing when
\* the name is taken, and without it the statement fails
Exec(statement, cat) ==
    LET kind == IF statement.op = "CREATE TABLE" THEN "tables" ELSE "indexes"
    IN  IF statement.name \in cat[kind]
        THEN [catalog |-> cat, failed |-> ~statement.guarded]
        ELSE [catalog |-> [cat EXCEPT ![kind] = @ \cup {statement.name}],
              failed |-> FALSE]

\* the statements executed in order on the catalog, up to the first that
\* fails
RECURSIVE Run(_, _)
Run(statements, cat) ==
    IF statements = <<>>
    THEN [catalog |-> cat, failed |-> FALSE]
    ELSE LET first == Exec(Head(statements), cat)
         IN  IF first.failed THEN first ELSE Run(Tail(statements), first.catalog)

\* ------------------------------------------- create and update queries
\* number of fields of a model
NumFields ==
    4

\* the fields of a model, model._fields._order, each by its position: the
\* first is the id, auto or not; the second is a column of its own; any
\* later one may be injected, and is then stored inside the second
ModelFields ==
    {fields \in [1..NumFields -> [auto : BOOLEAN, inject : BOOLEAN]] :
        /\ ~fields[1].inject
        /\ ~fields[2].auto /\ ~fields[2].inject
        /\ \A i \in 3..NumFields : ~fields[i].auto}

\* record.update({}): the values to write, by store.  A changed field is
\* written under its own store; an injected one is written into the value
\* of the field that holds it, under that field's store
Updates(fields, changed) ==
    {i \in changed : ~fields[i].inject}
    \cup {2 : i \in {j \in changed : fields[j].inject}}

\* the columns of the INSERT of create_query
CreateFields(fields) ==
    SelectSeq([i \in 1..NumFields |-> i],
              LAMBDA i : ~fields[i].auto /\ ~fields[i].inject)

\* UpdateField with the test of field.auto left out
UpdateFieldOfAuto(fields, i, updates) ==
    i \in updates

\* update_field: the field is added to SET
UpdateField(fields, i, updates) ==
    i \in updates /\ ~fields[i].auto

\* update_record: update_field on every field, in order; what SET holds
UpdateRecord(fields, updates) ==
    SelectSeq([i \in 1..NumFields |-> i], LAMBDA i : UpdateField(fields, i, updates))

\* ------------------------------------------------------------------- state
VARIABLES
    files,      \* bodies of the migration-*.sql files in source_path
    exists,     \* the table _relations_migration exists
    ledger,     \* committed rows of _relations_migration, in insertion order
    pc,         \* pc[n]: where run n of migrate is
    stamps,     \* stamps[n]: what run n read from the ledger
    paths,      \* paths[n]: migration_paths of run n
    idx,        \* idx[n]: position of run n in migration_paths
    migrated,   \* migrated[n]: the local variable migrated of run n
    result,     \* result[n]: "none", "true", "false" or "error"
    overlap,    \* a run has started while another was in progress
    log,        \* what the runs did to the database, in order
    table,      \* the rows of the model's table: table[id] is the name
    model,      \* the model object handed to retrieve
    call,       \* the last call of retrieve: its arguments and how it ended
    store,      \* the row ids of the table simple, the number of rows of plain
    obj,        \* the model object handed to create, update or delete
    wrote,      \* the last call of create, update or delete: what it did
    tables,     \* tables[c]: the rows of Unit or Test: whether the name matches
    search,     \* the last search: what it was made on and what it made
    compiled,   \* the last predicate compiled: what was given and what was made
    catalog,    \* the names of the tables and of the indexes the database has
    ddl,        \* the last definition or migration compiled, and its executions
    query,      \* the last create or update query built: its fields and columns
    executed    \* the last text handed to execute, and what execute did

ledgerVars ==
    <<files, exists, ledger, pc, stamps, paths, idx, migrated, result, overlap, log>>

modelVars ==
    <<table, model, call>>

writeVars ==
    <<store, obj, wrote>>

searchVars ==
    <<tables, search>>

vars ==
    <<files, exists, ledger, pc, stamps, paths, idx, migrated, result, overlap, log,
      table, model, call, store, obj, wrote,
      tables, search, compiled, catalog, ddl, query, executed>>

\* what an action on the ledger, on the retrieved model or on the written
\* model leaves alone
besideLedger ==
    <<modelVars, writeVars, searchVars, compiled, catalog, ddl, query, executed>>

besideModel ==
    <<ledgerVars, writeVars, searchVars, compiled, catalog, ddl, query, executed>>

besideWrite ==
    <<ledgerVars, modelVars, searchVars, compiled, catalog, ddl, query, executed>>

besideSearch ==
    <<ledgerVars, modelVars, writeVars, compiled, catalog, ddl, query, executed>>

besidePredicate ==
    <<ledgerVars, modelVars, writeVars, searchVars, catalog, ddl, query, executed>>

besideDdl ==
    <<ledgerVars, modelVars, writeVars, searchVars, compiled, query, executed>>

besideQuery ==
    <<ledgerVars, modelVars, writeVars, searchVars, compiled, catalog, ddl, executed>>

besideExecute ==
    <<ledgerVars, modelVars, writeVars, searchVars, compiled, catalog, ddl, query>>

\* no query built
QueryAtRest ==
    query = [op |-> "none", fields |-> <<>>, changed |-> {}, columns |-> <<>>]

\* no table created and nothing compiled
DdlAtRest ==
    /\ catalog = [tables |-> {}, indexes |-> {}]
    /\ ddl = [op |-> "none", definition |-> None, migration |-> None,
              statements |-> <<>>, ran |-> 0, ended |-> "none", changed |-> FALSE]

Runs ==
    1..MaxRuns

Active(n) ==
    pc[n] \notin {"idle", "done", "raised"}

\* an empty table, and a model on which retrieve has not been called
ModelAtRest ==
    /\ table = <<>>
    /\ model = [_mode |-> "many", _role |-> "model", _action |-> "retrieve",
                _record |-> Some(Criteria({})), _models |-> None, _limit |-> None,
                _sort |-> None, overflow |-> FALSE]
    /\ call = NoCall

\* empty tables, and a model on which nothing has been called
WriteAtRest ==
    /\ store = [simple |-> {}, plain |-> 0]
    /\ obj = [STORE |-> "simple", _id |-> Some("id"), _bulk |-> FALSE, _mode |-> "many",
              _action |-> "retrieve", _record |-> "retrieve", criteria |-> None,
              records |-> <<>>]
    /\ wrote = NoWrite

\* empty tables, and no search made
SearchAtRest ==
    /\ tables = [c \in {"test", "unit"} |-> <<>>]
    /\ search = NoSearch

Init ==
    /\ files = {}
    /\ exists = FALSE
    /\ ledger = <<>>
    /\ pc = [n \in Runs |-> "idle"]
    /\ stamps = [n \in Runs |-> <<>>]
    /\ paths = [n \in Runs |-> <<>>]
    /\ idx = [n \in Runs |-> 0]
    /\ migrated = [n \in Runs |-> FALSE]
    /\ result = [n \in Runs |-> "none"]
    /\ overlap = FALSE
    /\ log = <<>>
    /\ ModelAtRest
    /\ WriteAtRest
    /\ SearchAtRest
    /\ compiled = NoPredicate
    /\ DdlAtRest
    /\ QueryAtRest
    /\ executed = [text |-> <<>>, commands |-> <<>>, failAt |-> 0, events |-> <<>>]

\* ----------------------------------------------------------------- actions
\* the external converter writes one more migration-*.sql file
AddFile ==
    /\ Cardinality(files) < MaxFiles
    /\ \E b \in Bodies \ files : files' = files \cup {b}
    /\ UNCHANGED <<exists, ledger, pc, stamps, paths, idx, migrated, result, overlap, log>>
    /\ UNCHANGED besideLedger

\* migrate is called: migrated = False.  The runs are numbered in the order
\* of their calls; atOnce is how many runs the caller lets be in progress.
Call(n, atOnce) ==
    /\ pc[n] = "idle"
    /\ n > 1 => pc[n - 1] # "idle"
    /\ Cardinality({m \in Runs : Active(m)}) < atOnce
    /\ pc' = [pc EXCEPT ![n] = "define"]
    /\ overlap' = (overlap \/ \E m \in Runs : Active(m))
    /\ UNCHANGED <<files, exists, ledger, stamps, paths, idx, migrated, result, log>>
    /\ UNCHANGED besideLedger

\* self.execute(Migration.define()): CREATE TABLE IF NOT EXISTS
Define(n) ==
    /\ pc[n] = "define"
    /\ exists' = TRUE
    /\ pc' = [pc EXCEPT ![n] = "read"]
    /\ UNCHANGED <<files, ledger, stamps, paths, idx, migrated, result, overlap, log>>
    /\ UNCHANGED besideLedger

\* stamps = Migration.many().stamp
ReadStamps(n) ==
    /\ pc[n] = "read"
    /\ exists
    /\ stamps' = [stamps EXCEPT ![n] = ledger]
    /\ pc' = [pc EXCEPT ![n] = "glob"]
    /\ UNCHANGED <<files, exists, ledger, paths, idx, migrated, result, overlap, log>>
    /\ UNCHANGED besideLedger

\* migration_paths = sorted(glob.glob(...)); if not stamps: ... else: ...
Glob(n) ==
    /\ pc[n] = "glob"
    /\ paths' = [paths EXCEPT ![n] = SortedPaths(files)]
    /\ idx' = [idx EXCEPT ![n] = 1]
    /\ pc' = [pc EXCEPT ![n] = IF IsEmpty(stamps[n]) THEN "bulk" ELSE "loop"]
    /\ UNCHANGED <<files, exists, ledger, stamps, migrated, result, overlap, log>>
    /\ UNCHANGED besideLedger

\* cold start: migration.create(); self.connection.commit()
BulkCreate(n) ==
    /\ pc[n] = "bulk"
    /\ ledger' = InsertRows(ledger, BulkRows(paths[n]))
    /\ log' = Append(log, [op |-> "insert", run |-> n, file |-> Baseline,
                           rows |-> BulkRows(paths[n])])
    /\ pc' = [pc EXCEPT ![n] = "baseline"]
    /\ UNCHANGED <<files, exists, stamps, paths, idx, migrated, result, overlap>>
    /\ UNCHANGED besideLedger

\* the for loop of the else branch, up to the if: a stamp that is in stamps
\* is passed over; past the last path, return migrated
LoopStep(n) ==
    /\ pc[n] = "loop"
    /\ IF idx[n] > Len(paths[n])
       THEN /\ pc' = [pc EXCEPT ![n] = "done"]
            /\ result' = [result EXCEPT ![n] = Returned(migrated[n])]
            /\ UNCHANGED idx
       ELSE /\ IF NotIn(StampOf(paths[n][idx[n]]), stamps[n])
               THEN /\ pc' = [pc EXCEPT ![n] = "create"]
                    /\ UNCHANGED idx
               ELSE /\ idx' = [idx EXCEPT ![n] = idx[n] + 1]
                    /\ UNCHANGED pc
            /\ UNCHANGED result
    /\ UNCHANGED <<files, exists, ledger, stamps, paths, migrated, overlap, log>>
    /\ UNCHANGED besideLedger

\* Migration(stamp).create(); self.connection.commit()
Create(n) ==
    /\ pc[n] = "create"
    /\ ledger' = InsertRows(ledger, <<StampOf(paths[n][idx[n]])>>)
    /\ log' = Append(log, [op |-> "insert", run |-> n, file |-> paths[n][idx[n]],
                           rows |-> <<StampOf(paths[n][idx[n]])>>])
    /\ pc' = [pc EXCEPT ![n] = "payload"]
    /\ UNCHANGED <<files, exists, stamps, paths, idx, migrated, result, overlap>>
    /\ UNCHANGED besideLedger

\* Execute going on with the next command after one has raised
ExecuteCarryingOn(n, file, commands, failAt) ==
    LET all  == [k \in 1..Len(commands) |->
                    [op |-> IF k = failAt THEN "fail" ELSE "exec",
                     run |-> n, file |-> file, cmd |-> k]]
        Runs_(e) == ~IsBlank(commands[e.cmd])
    IN  Append(SelectSeq(all, Runs_), [op |-> "commit", run |-> n, file |-> file, cmd |-> 0])

\* Execute committing after a command has raised
ExecuteCommitting(n, file, commands, failAt) ==
    LET last == IF failAt = 0 THEN Len(commands) ELSE failAt
        all  == [k \in 1..last |->
                    [op |-> IF k = failAt THEN "fail" ELSE "exec",
                     run |-> n, file |-> file, cmd |-> k]]
        Runs_(e) == ~IsBlank(commands[e.cmd])
    IN  Append(SelectSeq(all, Runs_), [op |-> "commit", run |-> n, file |-> file, cmd |-> 0])

\* execute(commands) on behalf of run n: the commands are run in order, a
\* blank one is passed over, and the first one that raises ends the call;
\* if none raises, commit.  failAt is the command that raises, 0 for none.
\* The events the call adds to the log:
Execute(n, file, commands, failAt) ==
    LET last == IF failAt = 0 THEN Len(commands) ELSE failAt - 1
        all  == [k \in 1..last |-> [op |-> "exec", run |-> n, file |-> file, cmd |-> k]]
        Runs_(e) == ~IsBlank(commands[e.cmd])
        end  == IF failAt = 0
                THEN [op |-> "commit", run |-> n, file |-> file, cmd |-> 0]
                ELSE [op |-> "fail", run |-> n, file |-> file, cmd |-> failAt]
    IN  Append(SelectSeq(all, Runs_), end)

\* the commands of a file that can raise: cursor.execute is called on them
CanFail(commands) ==
    {0} \cup {k \in 1..Len(commands) : ~IsBlank(commands[k])}

\* self.load(load_path): execute(load_file.read().split(";\n"))
Load(n, file, failAt) ==
    Execute(n, file, Commands(file), failAt)

\* cold start: self.load(f"{source_path}/definition.sql"); migrated = True;
\* return migrated
LoadBaseline(n) ==
    /\ pc[n] = "baseline"
    /\ \E failAt \in CanFail(Commands(Baseline)) :
          /\ log' = log \o Load(n, Baseline, failAt)
          /\ IF failAt = 0
             THEN /\ migrated' = [migrated EXCEPT ![n] = AfterLoad(migrated[n])]
                  /\ pc' = [pc EXCEPT ![n] = "done"]
                  /\ result' = [result EXCEPT ![n] = Returned(migrated'[n])]
             ELSE /\ pc' = [pc EXCEPT ![n] = "raised"]
                  /\ result' = [result EXCEPT ![n] = "error"]
                  /\ UNCHANGED migrated
    /\ UNCHANGED <<files, exists, ledger, stamps, paths, idx, overlap>>
    /\ UNCHANGED besideLedger

\* self.load(migration_path); migrated = True; on to the next path
LoadPayload(n) ==
    /\ pc[n] = "payload"
    /\ \E failAt \in CanFail(Commands(paths[n][idx[n]])) :
          /\ log' = log \o Load(n, paths[n][idx[n]], failAt)
          /\ IF failAt = 0
             THEN /\ migrated' = [migrated EXCEPT ![n] = AfterLoad(migrated[n])]
                  /\ pc' = [pc EXCEPT ![n] = "loop"]
                  /\ idx' = [idx EXCEPT ![n] = idx[n] + 1]
                  /\ UNCHANGED result
             ELSE /\ pc' = [pc EXCEPT ![n] = "raised"]
                  /\ result' = [result EXCEPT ![n] = "error"]
                  /\ UNCHANGED <<migrated, idx>>
    /\ UNCHANGED <<files, exists, ledger, stamps, paths, overlap>>
    /\ UNCHANGED besideLedger

Step(n) ==
    \/ Define(n)
    \/ ReadStamps(n)
    \/ Glob(n)
    \/ BulkCreate(n)
    \/ LoopStep(n)
    \/ Create(n)
    \/ LoadBaseline(n)
    \/ LoadPayload(n)

\* the caller serializes the runs
NextSerial ==
    \/ AddFile
    \/ \E n \in Runs : Call(n, 1)
    \/ \E n \in Runs : Step(n)

SpecMigrate ==
    Init /\ [][NextSerial]_vars

\* Two callers that nothing serializes, on a database that is fresh or
\* that an earlier run has cold-started over an empty directory.
Pair ==
    {1, 2}

InitConcurrent ==
    /\ files = {}
    /\ \/ exists = FALSE /\ ledger = <<>>
       \/ exists = TRUE /\ ledger = BulkRows(<<>>)
    /\ pc = [n \in Runs |-> "idle"]
    /\ stamps = [n \in Runs |-> <<>>]
    /\ paths = [n \in Runs |-> <<>>]
    /\ idx = [n \in Runs |-> 0]
    /\ migrated = [n \in Runs |-> FALSE]
    /\ result = [n \in Runs |-> "none"]
    /\ overlap = FALSE
    /\ log = <<>>
    /\ ModelAtRest
    /\ WriteAtRest
    /\ SearchAtRest
    /\ compiled = NoPredicate
    /\ DdlAtRest
    /\ QueryAtRest
    /\ executed = [text |-> <<>>, commands |-> <<>>, failAt |-> 0, events |-> <<>>]

NextConcurrent ==
    \/ AddFile
    \/ \E n \in Pair : Call(n, 2)
    \/ \E n \in Pair : Step(n)

SpecConcurrent ==
    InitConcurrent /\ [][NextConcurrent]_vars

\* ------------------------------------------------------ retrieve, actions
\* dict(row), for the row of the table with the id
Row(id) ==
    [id |-> id, name |-> table[id]]

\* the ids of the rows the WHERE clause of the model's query selects
Matching(m) ==
    {id \in 1..Len(table) :
        m._record # None /\ table[id] \in m._record[1].criteria}

\* a query to which no LIMIT is added
LimitedNever(m, n) ==
    n

\* LIMIT: limit(model, query) adds it when model._limit is not None
Limited(m, n) ==
    IF m._limit # None /\ m._limit[1] < n THEN m._limit[1] ELSE n

\* cursor.fetchall() on the model's query: the matching rows in id order,
\* cut at the limit
Rows(m) ==
    LET ids   == Matching(m)
        Nth(k) == CHOOSE id \in ids : Cardinality({j \in ids : j < id}) = k - 1
    IN  [k \in 1..Limited(m, Cardinality(ids)) |-> Row(Nth(k))]

\* retrieve_query(model): sort() leaves model._sort = None
Queried(m) ==
    [m EXCEPT !._sort = None]

\* a row is inserted into the table
InsertRow ==
    /\ Len(table) < MaxRows
    /\ \E name \in Names : table' = Append(table, name)
    /\ UNCHANGED <<model, call>>
    /\ UNCHANGED besideModel

\* the caller makes another model
NewModel ==
    /\ model' \in Models
    /\ call' = NoCall
    /\ UNCHANGED table
    /\ UNCHANGED besideModel

\* TooMany taking two rows for one
TooManyOffByOne(m, rows) ==
    m._mode = "one" /\ Len(rows) > 2

\* if model._mode == "one" and len(rows) > 1
TooMany(m, rows) ==
    m._mode = "one" /\ Len(rows) > 1

\* Missing with verify not looked at
MissingAlwaysRaises(verify) ==
    "raise none retrieved"

\* if verify: raise ModelError(model, "none retrieved"); return None
Missing(verify) ==
    IF verify THEN "raise none retrieved" ELSE "return None"

\* retrieve with the overflow of the model not kept
RetrievedResetting(m, verify, rows) ==
    IF TooMany(m, rows)
    THEN [model |-> m, ended |-> "raise more than one retrieved"]
    ELSE IF m._mode = "one" /\ m._role # "child"
    THEN IF Len(rows) < 1
         THEN [model |-> m, ended |-> Missing(verify)]
         ELSE [model |-> [m EXCEPT !._record = Some(Build("update", rows[1])),
                                   !._action = "update"],
               ended |-> "return model"]
    ELSE [model |-> [m EXCEPT !._models = Some(rows),
                              !.overflow = m._limit # None /\ Len(rows) >= m._limit[1],
                              !._record = None,
                              !._action = "update"],
          ended |-> "return model"]

\* what retrieve(model, verify) leaves of the model and how it ends, given
\* the rows fetched
Retrieved(m, verify, rows) ==
    IF TooMany(m, rows)
    THEN [model |-> m, ended |-> "raise more than one retrieved"]
    ELSE IF m._mode = "one" /\ m._role # "child"
    THEN IF Len(rows) < 1
         THEN [model |-> m, ended |-> Missing(verify)]
         ELSE [model |-> [m EXCEPT !._record = Some(Build("update", rows[1])),
                                   !._action = "update"],
               ended |-> "return model"]
    ELSE LET models == rows
         IN  [model |-> [m EXCEPT !._models = Some(models),
                                  !.overflow = IF m._limit # None
                                               THEN m.overflow \/ Len(models) >= m._limit[1]
                                               ELSE m.overflow,
                                  !._record = None,
                                  !._action = "update"],
              ended |-> "return model"]

\* retrieve(model, verify), query=None
Retrieve ==
    /\ model._action = "retrieve"
    /\ \E verify \in BOOLEAN :
          LET rows == Rows(model)
              got  == Retrieved(Queried(model), verify, rows)
          IN  /\ model' = got.model
              /\ call' = [verify |-> verify, before |-> Some(model),
                          rows |-> Len(rows), ended |-> got.ended]
    /\ UNCHANGED table
    /\ UNCHANGED besideModel

NextRetrieve ==
    \/ InsertRow
    \/ NewModel
    \/ Retrieve

SpecRetrieve ==
    Init /\ [][NextRetrieve]_vars

\* ---------------------------------------- create, update, delete: actions
\* a statement handed to cursor.execute.  where is None when the statement
\* has no WHERE clause, else the ids it selects.  rows are the rows of an
\* INSERT: into simple the row ids the database assigns, into plain the
\* simple_id each row carries (0 for a Plain made on its own).
Statement(sql, STORE, where, rows) ==
    [sql |-> sql, STORE |-> STORE, where |-> where, rows |-> rows]

\* cursor.lastrowid of the next insert into a table with these row ids
LastRowId(ids) ==
    IF ids = {} THEN 1 ELSE 1 + CHOOSE x \in ids : \A y \in ids : y <= x

\* the rows of simple a statement selects
Selected(st, s) ==
    IF s.where = None THEN st.simple ELSE st.simple \cap s.where[1]

\* cursor.rowcount after the statement; a statement on plain has no WHERE
\* clause, it selects every row
RowCount(st, s) ==
    IF s.sql = "INSERT" THEN Len(s.rows)
    ELSE IF s.STORE = "simple" THEN Cardinality(Selected(st, s))
    ELSE st.plain

\* the tables after the statement
Executed(st, s) ==
    IF s.sql = "INSERT"
    THEN IF s.STORE = "simple"
         THEN [st EXCEPT !.simple = @ \cup {s.rows[k][1] : k \in 1..Len(s.rows)}]
         ELSE [st EXCEPT !.plain = @ + Len(s.rows)]
    ELSE IF s.sql = "DELETE"
    THEN IF s.STORE = "simple"
         THEN [st EXCEPT !.simple = @ \ Selected(st, s)]
         ELSE [st EXCEPT !.plain = 0]
    ELSE st

RECURSIVE ExecutedAll(_, _)
\* the tables after the statements, in order
ExecutedAll(st, statements) ==
    IF statements = <<>> THEN st
    ELSE ExecutedAll(Executed(st, Head(statements)), Tail(statements))

\* model._each(action): the records of the model that have the action
Each(m, action) ==
    Ascending({k \in 1..Len(m.records) : m.records[k]._action = action})

\* create_id with the id left as it was
SetIdForgotten(record, rowid) ==
    record

\* create_id: model[model._id] = cursor.lastrowid
SetId(record, rowid) ==
    [record EXCEPT !.id = Some(rowid)]

\* not model._bulk and model._id is not None and
\* model._fields._names[model._id].auto: the id of Simple is auto
Auto(m) ==
    ~m._bulk /\ m._id # None

\* create(model): what it executes and what it leaves of the model
Created(m, st) ==
    LET creating == Each(m, "create")
        rowid(j) == LastRowId(st.simple) + j - 1
        nth(k)   == CHOOSE j \in 1..Len(creating) : creating[j] = k
        \* for creating in model._each("create"): create_id(cursor, creating, ...)
        ids      == [k \in 1..Len(m.records) |->
                        IF Auto(m) /\ m.records[k]._action = "create"
                        THEN SetId(m.records[k], rowid(nth(k)))
                        ELSE m.records[k]]
        each     == [j \in 1..Len(creating) |->
                        Statement("INSERT", m.STORE, None, <<Some(rowid(j))>>)]
        \* else: one INSERT with the VALUES of every record
        atOnce   == <<Statement("INSERT", m.STORE, None,
                        [j \in 1..Len(creating) |->
                            IF m.STORE = "simple" THEN Some(rowid(j)) ELSE Some(0)])>>
        \* creating._children[parent_child].create(): Plain has no id, its
        \* records go in one INSERT, each carrying the id its parent has
        children == [j \in 1..Len(creating) |->
                        Statement("INSERT", "plain", None,
                            [i \in 1..Len(ids[creating[j]].kids) |-> ids[creating[j]].id])]
        Sent(s)  == s.rows # <<>>
        updated  == [k \in 1..Len(m.records) |->
                        IF m.records[k]._action = "create"
                        THEN [ids[k] EXCEPT !._action = "update",
                                            !.kids = [i \in 1..Len(@) |-> "update"]]
                        ELSE ids[k]]
    IN  IF m._bulk
        THEN [model |-> [m EXCEPT !.records = <<>>], statements |-> atOnce]
        ELSE [model |-> [m EXCEPT !.records = updated, !._action = "update",
                                  !._record = "update"],
              statements |-> (IF Auto(m) THEN each ELSE atOnce)
                                \o SelectSeq(children, Sent)]

\* the rows that have the id of one of the records: a record whose id is
\* None selects none
Keys(records, m) ==
    {m.records[k].id[1] : k \in {r \in records : m.records[r].id # None}}

\* update with a model that is retrieving taken to have values set
MassUpdateWithoutSet(m) ==
    m._action = "retrieve"

\* if model._action == "retrieve" and model._record._action == "update"
MassUpdate(m) ==
    m._action = "retrieve" /\ m._record = "update"

\* update(model): how it ends, and its turns: one for the mass update, or
\* one for every record that is updated by id, in order.  A turn is the
\* statement executed in it, or None for a record that has nothing to set
\* (not update_query.SET); changed are the records that have values set
Updated(m, changed) ==
    IF MassUpdate(m)
    THEN [turns |-> <<Some(Statement("UPDATE", m.STORE, m.criteria, <<>>))>>,
          ended |-> "return"]
    ELSE IF m._id # None
    THEN LET updating == Each(m, "update")
         IN  [turns |-> [j \in 1..Len(updating) |->
                            IF updating[j] \in changed
                            THEN Some(Statement("UPDATE", m.STORE,
                                          Some(Keys({updating[j]}, m)), <<>>))
                            ELSE None],
              ended |-> "return"]
    ELSE [turns |-> <<>>, ended |-> "raise nothing to update from"]

\* the statements executed in the turns, in order
Statements(turns) ==
    LET sent == SelectSeq(turns, LAMBDA t : t # None)
    IN  [j \in 1..Len(sent) |-> sent[j][1]]

\* what update returns: updated += cursor.rowcount after every turn, with
\* cursor.rowcount what the last statement executed on the cursor left,
\* and -1 on a cursor that has executed none
RECURSIVE UpdatedRows(_, _, _)
UpdatedRows(st, turns, rowcount) ==
    IF turns = <<>> THEN 0
    ELSE LET now == IF Head(turns) = None
                    THEN rowcount ELSE RowCount(st, Head(turns)[1])
             next == IF Head(turns) = None
                     THEN st ELSE Executed(st, Head(turns)[1])
         IN  now + UpdatedRows(next, Tail(turns), now)

\* delete(model): what it executes and how it ends
Deleted(m) ==
    IF m._action = "retrieve"
    THEN [statements |-> <<Statement("DELETE", m.STORE, m.criteria, <<>>)>>,
          ended |-> "return"]
    ELSE IF m._id # None
    THEN [statements |-> <<Statement("DELETE", m.STORE,
                            Some(Keys(1..Len(m.records), m)), <<>>)>>,
          ended |-> "return"]
    ELSE [statements |-> <<>>, ended |-> "raise nothing to delete from"]

\* the sum of cursor.rowcount over the statements, each executed in turn
RECURSIVE RowCounts(_, _)
RowCounts(st, statements) ==
    IF statements = <<>> THEN 0
    ELSE RowCount(st, Head(statements))
            + RowCounts(Executed(st, Head(statements)), Tail(statements))

\* the caller makes another model
NewObject ==
    /\ obj' \in Creating \cup Retrieving
    /\ wrote' = NoWrite
    /\ UNCHANGED store
    /\ UNCHANGED besideWrite

\* model.create()
CreateModel ==
    /\ obj._action = "create"
    /\ LET made == Created(obj, store)
           next == ExecutedAll(store, made.statements)
       IN  /\ \A x \in next.simple : x <= MaxStored
           /\ next.plain <= MaxStored
           /\ store' = next
           /\ obj' = made.model
           /\ wrote' = [op |-> "create", before |-> Some(obj), ended |-> "return",
                       statements |-> made.statements, changed |-> {},
                       returned |-> 0]
    /\ UNCHANGED besideWrite

\* model.update(): on a model that was created, some of its records given
\* new values since, or on a retrieving model after set(...); a retrieving
\* model without an id field may also come without set(...)
UpdateModel ==
    /\ obj._action = "retrieve" /\ obj._record = "retrieve" => obj._id = None
    /\ \E changed \in SUBSET (1..Len(obj.records)) :
          LET made == Updated(obj, changed)
          IN  /\ store' = ExecutedAll(store, Statements(made.turns))
              /\ wrote' = [op |-> "update", before |-> Some(obj), ended |-> made.ended,
                          statements |-> Statements(made.turns),
                          changed |-> changed,
                          returned |-> UpdatedRows(store, made.turns, -1)]
    /\ UNCHANGED obj
    /\ UNCHANGED besideWrite

\* model.delete()
DeleteModel ==
    /\ obj._action # "create"
    /\ LET made == Deleted(obj)
       IN  /\ store' = ExecutedAll(store, made.statements)
           /\ wrote' = [op |-> "delete", before |-> Some(obj), ended |-> made.ended,
                       statements |-> made.statements, changed |-> {},
                       returned |-> RowCounts(store, made.statements)]
    /\ UNCHANGED obj
    /\ UNCHANGED besideWrite

NextWrite ==
    \/ NewObject
    \/ CreateModel
    \/ UpdateModel
    \/ DeleteModel

SpecWrite ==
    Init /\ [][NextWrite]_vars

\* ------------------------------------------------------------------ search
\* most rows the table of Unit or of Test may hold
RowsPer ==
    2

\* largest chunk a searching model may be given
MaxChunk ==
    2

\* model.PARENTS: the class the child field of the model refers to
PARENTS ==
    [c \in Classes |-> IF c = "case" THEN Some("test")
                       ELSE IF c = "test" THEN Some("unit") ELSE None]

\* the chunk of a model that was given none, as the parent made by a
\* search is: a full table reaches it
CHUNK ==
    RowsPer

\* an entry of model._titles after name.split("__", 1): the field, the
\* path left of the title, whether the field is relation.child_field of a
\* parent relation, its kind, field.titles and field.extract
Title(name, path, child_field, kind, titles, extract) ==
    [name |-> name, path |-> path, child_field |-> child_field, kind |-> kind,
     titles |-> titles, extract |-> extract]

\* unit_id of Test, test_id of Case
ChildField(c) ==
    Title(IF c = "case" THEN "test_id" ELSE "unit_id", <<>>, TRUE, "int", <<>>, {})

NameField ==
    Title("name", <<>>, FALSE, "str", <<>>, {})

\* a structured field with titles of its own, one of them extracted
MetaField ==
    Title("meta", <<>>, FALSE, "dict", <<"a", "b">>, {"a"})

\* the title meta__c
MetaPath ==
    Title("meta", <<"c">>, FALSE, "dict", <<"a", "b">>, {"a"})

\* a structured field with no titles
BlobField ==
    Title("blob", <<>>, FALSE, "dict", <<>>, {})

\* model._titles of Unit, Test and Case
Own(c) ==
    IF PARENTS[c] # None THEN <<ChildField(c), NameField>> ELSE <<NameField>>

\* model._titles of the model a search is made on: those of its class, or
\* those of a class of the same place in the chain with other titles
TitleLists(c) ==
    {Own(c), <<>>, <<BlobField>>, <<MetaField, NameField>>, <<MetaPath>>}
        \cup (IF PARENTS[c] # None
              THEN {<<ChildField(c)>>, <<ChildField(c), BlobField>>}
              ELSE {})

\* self.IN(field.store, parent[relation.parent_field])
In(t, ids) ==
    [op |-> "IN", field |-> t.name, path |-> None, extracted |-> FALSE, ids |-> ids]

\* self.LIKE(f"{field.store}__{path}", model._like, extracted=...) and
\* self.LIKE(field.store, model._like)
Like(t, path, extracted) ==
    [op |-> "LIKE", field |-> t.name, path |-> path, extracted |-> extracted,
     ids |-> <<>>]

\* if not parent: the pattern matches a title adds
Patterns(t) ==
    LET paths_ == IF t.path # <<>> THEN t.path ELSE t.titles
    IN  IF paths_ # <<>>
        THEN [k \in 1..Len(paths_) |-> Like(t, Some(paths_[k]), paths_[k] \in t.extract)]
        ELSE <<Like(t, None, FALSE)>>

\* the rows of a table of the chain the WHERE term of a search selects: row
\* i has the id i, refers to the parent with the id i, and db[c][i] says
\* whether its name matches the term.  Without a WHERE term, every row.
Found(db, c, preds) ==
    {i \in 1..Len(db[c]) :
        \/ preds = <<>>
        \/ \E k \in 1..Len(preds) :
              \/ preds[k].op = "LIKE" /\ preds[k].field = "name" /\ db[c][i]
              \/ preds[k].op = "IN" /\ \E j \in 1..Len(preds[k].ids) : preds[k].ids[j] = i}

\* a parent that is given no limit
ManyUnlimited(limit, overflow) ==
    [_mode |-> "many", _role |-> "model", _action |-> "retrieve",
     _record |-> Some(Criteria({})), _models |-> None, _limit |-> None,
     _sort |-> None, overflow |-> overflow]

\* Class.many(like=...).limit(limit) before it is retrieved
Many(limit, overflow) ==
    [_mode |-> "many", _role |-> "model", _action |-> "retrieve",
     _record |-> Some(Criteria({})), _models |-> None, _limit |-> limit,
     _sort |-> None, overflow |-> overflow]

\* like(model, query), for each title: titles is what it adds to the OR,
\* overflow whether a parent handed its overflow on, lookups the parent
\* searches it made, the nested ones after the one that made them.
\* Lookup(db, c, limit, depth) is
\*   parent = relation.Parent.many(like=model._like).limit(model._chunk)
\* with parent[relation.parent_field], which retrieves the parent: its
\* retrieve_query calls like on the parent in turn.
RECURSIVE LikeOf(_, _, _, _, _)
LikeOf(db, c, titles_, chunk, depth) ==
    IF titles_ = <<>>
    THEN [titles |-> <<>>, overflow |-> FALSE, lookups |-> <<>>]
    ELSE LET t      == Head(titles_)
             rest   == LikeOf(db, c, Tail(titles_), chunk, depth)
             P      == PARENTS[c][1]
             inner  == LikeOf(db, P, Own(P), CHUNK, depth + 1)
             found  == Ascending(Found(db, P, inner.titles))
             rows   == SubSeq(found, 1, Limited(Many(Some(chunk), FALSE), Len(found)))
             parent == Retrieved(Many(Some(chunk), inner.overflow), TRUE, rows).model
             lookup == [class |-> P, depth |-> depth, limit |-> chunk,
                        found |-> Len(found), ids |-> rows, overflow |-> parent.overflow]
             one    == IF t.child_field /\ PARENTS[c] # None
                       THEN IF rows # <<>>
                            THEN [titles |-> <<In(t, rows)>>, overflow |-> parent.overflow,
                                  lookups |-> <<lookup>> \o inner.lookups]
                            ELSE [titles |-> <<>>, overflow |-> FALSE,
                                  lookups |-> <<lookup>> \o inner.lookups]
                       ELSE [titles |-> Patterns(t), overflow |-> FALSE, lookups |-> <<>>]
         IN  [titles |-> one.titles \o rest.titles,
              overflow |-> one.overflow \/ rest.overflow,
              lookups |-> one.lookups \o rest.lookups]

\* a WHERE term added whatever the OR holds
WhereAlways(titles_) ==
    TRUE

\* if titles: query.WHERE(titles)
Where(titles_) ==
    titles_ # <<>>

\* the classes that have children: their tables are what a search reads
Parents ==
    {PARENTS[c][1] : c \in {d \in Classes : PARENTS[d] # None}}

\* a row is inserted into the table of Unit or of Test
InsertInto ==
    /\ \E c \in Parents, hit \in BOOLEAN :
          /\ Len(tables[c]) < RowsPer
          /\ tables' = [tables EXCEPT ![c] = Append(@, hit)]
    /\ search' = NoSearch
    /\ UNCHANGED besideSearch

\* if model._like is None: return
Unsought(c) ==
    [op |-> "like", class |-> c, titles |-> Own(c), like |-> None, chunk |-> CHUNK,
     limit |-> None, before |-> FALSE, predicates |-> <<>>, where |-> FALSE,
     overflow |-> FALSE, lookups |-> <<>>, rows |-> 0]

\* like(model, query) on a model that was just made, Class.many() or
\* Class.many(like="p", _chunk=chunk).  search keeps one search for each
\* state of the tables.
Search ==
    /\ search.op = "none"
    /\ \E c \in Classes :
          \/ search' = Unsought(c)
          \/ \E chunk \in 1..MaxChunk, titles_ \in TitleLists(c) :
                LET made == LikeOf(tables, c, titles_, chunk, 1)
                IN  search' = [op |-> "like", class |-> c, titles |-> titles_,
                               like |-> Some("p"), chunk |-> chunk, limit |-> None,
                               before |-> FALSE, predicates |-> made.titles,
                               where |-> Where(made.titles), overflow |-> made.overflow,
                               lookups |-> made.lookups, rows |-> 0]
    /\ UNCHANGED tables
    /\ UNCHANGED besideSearch

\* retrieve(model) on Class.many(like="p"), with or without a limit:
\* retrieve_query calls like, then the rows are fetched
RetrieveSearch ==
    /\ search.op = "none"
    /\ \E c \in Parents, chunk \in 1..MaxChunk, before \in BOOLEAN :
          \E limit \in {None} \cup {Some(l) : l \in 1..MaxLimit} :
             LET made  == LikeOf(tables, c, Own(c), chunk, 1)
                 m     == Many(limit, before \/ made.overflow)
                 found == Ascending(Found(tables, c, made.titles))
                 rows  == SubSeq(found, 1, Limited(m, Len(found)))
                 got   == Retrieved(Queried(m), TRUE, rows)
             IN  search' = [op |-> "retrieve", class |-> c, titles |-> Own(c),
                            like |-> Some("p"), chunk |-> chunk, limit |-> limit,
                            before |-> before, predicates |-> made.titles,
                            where |-> Where(made.titles),
                            overflow |-> got.model.overflow, lookups |-> made.lookups,
                            rows |-> Len(rows)]
    /\ UNCHANGED tables
    /\ UNCHANGED besideSearch

NextSearch ==
    \/ InsertInto
    \/ Search
    \/ RetrieveSearch

SpecSearch ==
    Init /\ [][NextSearch]_vars

\* ----------------------------------------------------- predicates, actions
\* retrieve_field on the structured field meta with one criterion
RetrieveMeta ==
    /\ \E path \in NestedPaths \cup {<<>>}, operator \in Operators :
          \E extract \in SUBSET NestedPaths :
             LET made == RetrieveField(<<109, 101, 116, 97>>,
                                       CriterionKey(path, operator), extract)
             IN  compiled' = [NoPredicate EXCEPT !.op = "retrieve_field",
                                                 !.path = path,
                                                 !.operator = operator,
                                                 !.extract = extract,
                                                 !.name = made.name,
                                                 !.extracted = made.extracted]
    /\ UNCHANGED besidePredicate

\* a list of at most MaxValues values is given to in or to ne
CompileIn ==
    /\ \E n \in 0..MaxValues, exclusion \in BOOLEAN :
          \E values \in [1..n -> {1, 2}] :
             LET made == InOf(values, exclusion)
             IN  compiled' = [NoPredicate EXCEPT !.op = "in",
                                                 !.values = values,
                                                 !.exclusion = exclusion,
                                                 !.sql = made.sql,
                                                 !.placeholders = made.placeholders,
                                                 !.binds = made.binds]
    /\ UNCHANGED besidePredicate

NextPredicate ==
    \/ RetrieveMeta
    \/ CompileIn

SpecPredicate ==
    Init /\ [][NextPredicate]_vars

\* ------------------------------------------- definitions and migrations
\* define, on one of the definitions: the statements that create its table
DefineTable ==
    /\ ddl.op = "none"
    /\ \E definition \in {SimpleDefinition, MetaDefinition} :
          ddl' = [op |-> "define", definition |-> Some(definition),
                  migration |-> None, statements |-> TableCreate(definition),
                  ran |-> 0, ended |-> "none", changed |-> FALSE]
    /\ UNCHANGED catalog
    /\ UNCHANGED besideDdl

\* execute, on the statements of the definition: they are executed in
\* order, and the first that fails ends the call with its error
ExecuteDdl ==
    /\ ddl.op = "define"
    /\ ddl.ran < MaxExecutes
    /\ ddl.ended # "raised"
    /\ LET ran == Run(ddl.statements, catalog)
       IN  /\ catalog' = ran.catalog
           /\ ddl' = [ddl EXCEPT !.ran = @ + 1,
                                 !.ended = IF ran.failed THEN "raised" ELSE "returned",
                                 !.changed = ran.catalog # catalog]
    /\ UNCHANGED besideDdl

\* define, on a migration of the definition whose table has been created
ModifyTable ==
    /\ ddl.op = "define"
    /\ ddl.ran = 1
    /\ \E migration \in Migrations(ddl.definition[1]) :
          ddl' = [op |-> "modify", definition |-> ddl.definition,
                  migration |-> Some(migration),
                  statements |-> Modify(ddl.definition[1], migration),
                  ran |-> 0, ended |-> "none", changed |-> FALSE]
    /\ UNCHANGED catalog
    /\ UNCHANGED besideDdl

NextDdl ==
    \/ DefineTable
    \/ ExecuteDdl
    \/ ModifyTable

SpecDdl ==
    Init /\ [][NextDdl]_vars

\* ------------------------------------------- create and update queries
\* create_query, on a model with the fields
CreateQuery ==
    /\ \E fields \in ModelFields :
          query' = [op |-> "INSERT", fields |-> fields, changed |-> {},
                    columns |-> CreateFields(fields)]
    /\ UNCHANGED besideQuery

\* update_query, on a model with the fields, of which some were changed
UpdateQuery ==
    /\ \E fields \in ModelFields, changed \in SUBSET (1..NumFields) :
          query' = [op |-> "UPDATE", fields |-> fields, changed |-> changed,
                    columns |-> UpdateRecord(fields, Updates(fields, changed))]
    /\ UNCHANGED besideQuery

NextQuery ==
    \/ CreateQuery
    \/ UpdateQuery

SpecQuery ==
    Init /\ [][NextQuery]_vars

\* ---------------------------------------------------------------- execute
\* execute(commands) on a string: the text is split on ";\n" and the
\* commands are executed; failAt is the command that raises, 0 for none.
\* One call is followed: what a call does takes nothing from the last one
ExecuteText ==
    /\ executed.events = <<>>
    /\ \E text \in UNION {[1..n -> {115, 59, 10, 32}] : n \in 0..MaxText} :
          \E failAt \in CanFail(Split(text)) :
              executed' = [text |-> text, commands |-> Split(text), failAt |-> failAt,
                           events |-> Execute(0, text, Split(text), failAt)]
    /\ UNCHANGED besideExecute

NextExecute ==
    \/ ExecuteText

SpecExecute ==
    Init /\ [][NextExecute]_vars

\* ------------------------------------------------- properties of migrate
\* what run n did to the database, in order
Events(n) ==
    LET Mine(e) == e.run = n
    IN  SelectSeq(log, Mine)

\* run n has read the ledger and listed the directory
Listed(n) ==
    pc[n] \notin {"idle", "define", "read", "glob"}

\* run n returned (true or false) without an error
Completed(n) ==
    result[n] \in {"true", "false"}

\* the migration files run n knows
Known(n) ==
    {paths[n][i] : i \in 1..Len(paths[n])}

\* the number of rows of the table that hold the stamp
Recorded(rows, stamp) ==
    Cardinality({i \in 1..Len(rows) : rows[i] = stamp})

\* the positions of the log where a command of the file was executed
Executions(file, cmd) ==
    {k \in 1..Len(log) :
        log[k].op = "exec" /\ log[k].file = file /\ log[k].cmd = cmd}

\* C1: after a migrate run that completed without error, the run that
\* follows it immediately over the same set of migration files returns
\* false, inserts no ledger row and executes neither the baseline nor any
\* migration payload.
C1_SecondRunDoesNothing ==
    \A n \in 1..(MaxRuns - 1) :
        (Completed(n) /\ Listed(n + 1) /\ paths[n + 1] = paths[n])
        => /\ Events(n + 1) = <<>>
           /\ result[n + 1] \in {"none", "false"}
           /\ pc[n + 1] \in {"loop", "done"}
           /\ pc[n + 1] = "done" => result[n + 1] = "false"

\* a run that did work, followed by a run over the same files that returned
C1_Witness ==
    /\ result[1] = "true"
    /\ Len(paths[1]) >= 1
    /\ paths[2] = paths[1]
    /\ pc[2] = "done"
    /\ result[2] = "false"

\* C2: a run that finds the ledger empty records every known stamp in one
\* batch insert, then executes the baseline definition file, and executes
\* no migration payload.
C2_ColdStart ==
    \A n \in Runs :
        (Listed(n) /\ pc[n] # "bulk" /\ Len(stamps[n]) = 0)
        => LET ev == Events(n)
           IN  /\ Len(ev) >= 1
               /\ ev[1].op = "insert"
               /\ Len(ev[1].rows) = Len(paths[n]) + 1
               /\ \A f \in Known(n) : \E i \in 1..Len(ev[1].rows) : ev[1].rows[i] = StampOf(f)
               /\ \A f \in Known(n) : Recorded(ledger, StampOf(f)) >= 1
               /\ \A k \in 2..Len(ev) :
                     /\ ev[k].op \in {"exec", "fail", "commit"}
                     /\ ev[k].file = Baseline
               /\ pc[n] = "done"
                  => /\ result[n] = "true"
                     /\ Len(ev) = NumStmts + 2
                     /\ \A c \in 1..NumStmts :
                           ev[c + 1] = [op |-> "exec", run |-> n, file |-> Baseline, cmd |-> c]

\* a cold start over two files that returned
C2_Witness ==
    \E n \in Runs :
        /\ Len(stamps[n]) = 0
        /\ Len(paths[n]) = 2
        /\ pc[n] = "done"
        /\ result[n] = "true"

\* the stamps of the rows run n inserted, in the order of the inserts
InsertedStamps(n) ==
    LET Ins(e) == e.op = "insert"
        ins == SelectSeq(Events(n), Ins)
    IN  [i \in 1..Len(ins) |-> ins[i].rows[1]]

\* a run that finds the ledger non-empty inserts only known stamps absent
\* from what it read and, once it has returned, all of them; each insert is
\* followed by the commands of that payload, in order, before the next
\* insert; no command of a payload whose stamp was read is executed
AppliesMissingStamps(n) ==
    LET ev == Events(n)
        done == InsertedStamps(n)
    IN  /\ \A i \in 1..Len(done) :
              /\ Recorded(stamps[n], done[i]) = 0
              /\ \E f \in Known(n) : StampOf(f) = done[i]
        /\ Completed(n)
           => \A f \in Known(n) :
                 Recorded(stamps[n], StampOf(f)) = 0
                 => \E i \in 1..Len(done) : done[i] = StampOf(f)
        /\ \A k \in 1..Len(ev) :
              /\ ev[k].op = "insert" => Len(ev[k].rows) = 1
              /\ ev[k].op \in {"exec", "fail", "commit"}
                 => /\ ev[k].file \in Known(n)
                    /\ Recorded(stamps[n], StampOf(ev[k].file)) = 0
              /\ (ev[k].op = "insert" /\ k + NumStmts + 1 <= Len(ev))
                 => /\ \A c \in 1..NumStmts :
                          ev[k + c] = [op |-> "exec", run |-> n,
                                       file |-> ev[k].file, cmd |-> c]
                    /\ ev[k + NumStmts + 1].op = "commit"
              /\ (ev[k].op = "insert" /\ k < Len(ev)) => ev[k + 1].op # "insert"

\* the stamps run n inserted are in ascending order, as Python orders str
InStampOrder(n) ==
    LET done == InsertedStamps(n)
    IN  \A i, j \in 1..Len(done) : i < j => ~LexLess(done[j], done[i])

\* C3: a run that finds the ledger non-empty processes exactly the known
\* stamps absent from the ledger, in ascending stamp order, inserting each
\* stamp and then executing all of its payload before the next stamp; the
\* payload of a stamp already recorded is not executed.
C3_AscendingStampOrder ==
    \A n \in Runs :
        (Listed(n) /\ Len(stamps[n]) > 0)
        => /\ AppliesMissingStamps(n)
           /\ InStampOrder(n)

\* C4: migrate returns true exactly when the run inserted a ledger row or
\* executed a file, and false exactly when the ledger it read was not empty
\* and held every known stamp.
C4_ReturnsWhetherWorked ==
    \A n \in Runs :
        Completed(n)
        => /\ result[n] = "true"
              <=> \E k \in 1..Len(log) :
                     log[k].run = n /\ log[k].op \in {"insert", "exec"}
           /\ result[n] = "false"
              <=> /\ Len(stamps[n]) > 0
                  /\ \A f \in Known(n) : Recorded(stamps[n], StampOf(f)) >= 1

\* one run that returned true after applying a payload to a non-empty
\* ledger, and one that returned false
C4_Witness ==
    \E n, m \in Runs :
        /\ result[n] = "true"
        /\ Len(stamps[n]) > 0
        /\ result[m] = "false"
        /\ Len(paths[m]) >= 1

\* the migration files have distinct stamps
DistinctStamps ==
    \A f, g \in files : f # g => StampOf(f) # StampOf(g)

\* C5: over sequential runs, with files of distinct stamps added between
\* them, every known stamp is recorded in the ledger exactly once and no
\* payload command is executed more than once.
C5_ExactlyOnce ==
    DistinctStamps
    => /\ \A n \in Runs :
             Completed(n) => \A f \in Known(n) : Recorded(ledger, StampOf(f)) = 1
       /\ \A f \in files : Recorded(ledger, StampOf(f)) <= 1
       /\ \A f \in Bodies : \A c \in 1..NumStmts : Cardinality(Executions(f, c)) <= 1

\* C6: the ledger is append-only: every step leaves the rows recorded so
\* far in place and unchanged.
C6_AppendOnly ==
    [][/\ Len(ledger') >= Len(ledger)
       /\ SubSeq(ledger', 1, Len(ledger)) = ledger]_vars

\* the ledger was extended by a cold start and again by a later run
C6_Witness ==
    \E n \in Runs :
        /\ Len(stamps[n]) > 0
        /\ Len(ledger) > Len(stamps[n])
        /\ result[n] = "true"

\* C7: when a command of a migration payload fails, the run ends with the
\* error, the stamp of that migration is in the ledger, the commands before
\* the failing one were executed and none after it, and no later run
\* executes a command of that payload.
C7_FailedPayload ==
    \A p \in 1..Len(log) :
        (log[p].op = "fail" /\ log[p].file # Baseline)
        => LET n == log[p].run
               f == log[p].file
               c == log[p].cmd
           IN  /\ result[n] = "error"
               /\ pc[n] = "raised"
               /\ Recorded(ledger, StampOf(f)) >= 1
               /\ p > c
               /\ log[p - c] = [op |-> "insert", run |-> n, file |-> f,
                                rows |-> <<StampOf(f)>>]
               /\ \A k \in 1..(c - 1) :
                     log[p - c + k] = [op |-> "exec", run |-> n, file |-> f, cmd |-> k]
               /\ \A q \in (p + 1)..Len(log) :
                     /\ log[q].run # n
                     /\ log[q].file # f

\* a payload failed at its second command, and a later run over the same
\* file returned
C7_Witness ==
    \E p \in 1..Len(log) : \E m \in Runs :
        /\ log[p].op = "fail"
        /\ log[p].file # Baseline
        /\ log[p].cmd = 2
        /\ m > log[p].run
        /\ Completed(m)
        /\ log[p].file \in Known(m)

\* runs n and m both executed the first command of the payload
BothExecuted(n, m, file) ==
    \E k, l \in 1..Len(log) :
        /\ log[k] = [op |-> "exec", run |-> n, file |-> file, cmd |-> 1]
        /\ log[l] = [op |-> "exec", run |-> m, file |-> file, cmd |-> 1]

\* C8: migrate takes no lock and reads the ledger once, at its start: it
\* applies a migration only if the stamp was absent from what it read, so
\* as long as the runs are serialized no payload is executed by two runs,
\* while two interleaved runs can both insert a stamp and execute its
\* payload.
C8_ExclusiveOnlyIfSerialized ==
    /\ overlap
       \/ \A k, l \in 1..Len(log) :
             (log[k].op = "exec" /\ log[l].op = "exec" /\ log[k].file = log[l].file)
             => log[k].run = log[l].run
    /\ \A n \in Runs :
          pc[n] \in {"create", "payload"}
          => Recorded(stamps[n], StampOf(paths[n][idx[n]])) = 0

\* two interleaved runs both saw the stamp absent, both inserted it and
\* both executed its payload
C8_Witness ==
    \E f \in Bodies : \E n, m \in Runs :
        /\ n # m
        /\ BothExecuted(n, m, f)
        /\ Recorded(stamps[n], StampOf(f)) = 0
        /\ Recorded(stamps[m], StampOf(f)) = 0
        /\ Len(stamps[n]) > 0
        /\ Len(stamps[m]) > 0
        /\ Recorded(ledger, StampOf(f)) >= 2

\* ------------------------------------------------ properties of retrieve
\* the model as it was when retrieve was last called
Before ==
    call.before[1]

\* C9: retrieve on a model in mode one whose query returns more than one
\* row raises 'more than one retrieved', and the model's record, its list
\* of models and its action are what they were before the call.
C9_MoreThanOneRetrieved ==
    (call.before # None /\ Before._mode = "one" /\ call.rows > 1)
    => /\ call.ended = "raise more than one retrieved"
       /\ model._record = Before._record
       /\ model._models = Before._models
       /\ model._action = Before._action

\* retrieve was called on a model in mode one and fetched two rows
C9_Witness ==
    /\ call.before # None
    /\ Before._mode = "one"
    /\ call.rows = 2
    /\ call.ended = "raise more than one retrieved"

\* C10: retrieve on a model in mode one, not in the child role, whose query
\* returns no row raises 'none retrieved' when verify is true and returns
\* None when verify is false; either way the model's action is not
\* switched to 'update'.
C10_NoneRetrieved ==
    (call.before # None /\ Before._mode = "one" /\ Before._role # "child"
        /\ call.rows = 0)
    => /\ call.verify => call.ended = "raise none retrieved"
       /\ ~call.verify => call.ended = "return None"
       /\ model._action = Before._action
       /\ model._action # "update"

\* retrieve was called with verify false on a model in mode one of a table
\* that holds rows, none of which the query selects
C10_Witness ==
    /\ call.before # None
    /\ Before._mode = "one"
    /\ Before._role = "model"
    /\ call.rows = 0
    /\ ~call.verify
    /\ call.ended = "return None"
    /\ Len(table) > 0

\* ------------------------------ properties of create, update and delete
\* the model the last call was made on
Written ==
    wrote.before[1]

\* no id value to key on and no filter criteria
NoIdentifyingCriteria(m) ==
    /\ m.criteria = None
    /\ \A k \in 1..Len(m.records) : m.records[k].id = None

\* C11 as stated: an update or a delete requested on a model with no
\* identifying criteria at all (no id value to key on and no filter
\* criteria) raises an error and executes no statement.
C11_NoCriteriaRaises ==
    (wrote.op \in {"update", "delete"} /\ NoIdentifyingCriteria(Written))
        => (wrote.ended # "return" /\ wrote.statements = <<>>)

\* the model is keyed by its filter criteria: for update a retrieving model
\* with values set, for delete a retrieving model
KeyedByCriteria(op, m) ==
    IF op = "update"
    THEN m._action = "retrieve" /\ m._record = "update"
    ELSE m._action = "retrieve"

\* C11, amended: an update or a delete raises an error exactly when the
\* model has no id field and is not keyed by its filter criteria, and then
\* no statement is executed; a model keyed by its filter criteria is not
\* refused when it has none: its one statement is executed without a WHERE
\* clause.
C11_NoIdFieldRaises ==
    wrote.op \in {"update", "delete"} =>
        /\ wrote.ended # "return"
              <=> (Written._id = None /\ ~KeyedByCriteria(wrote.op, Written))
        /\ wrote.ended # "return" => wrote.statements = <<>>
        /\ (KeyedByCriteria(wrote.op, Written) /\ Written.criteria = None)
              => /\ Len(wrote.statements) = 1
                 /\ wrote.statements[1].where = None

\* a delete of a created Plain, which has no id field, was refused
C11_Witness ==
    /\ wrote.op = "delete"
    /\ Written._action = "update"
    /\ Written._id = None
    /\ wrote.ended = "raise nothing to delete from"
    /\ wrote.statements = <<>>

\* the statements of the last call that insert the children of a record
\* with the id
ChildInserts(id) ==
    {i \in 1..Len(wrote.statements) :
        /\ wrote.statements[i].STORE = "plain"
        /\ \E r \in 1..Len(wrote.statements[i].rows) : wrote.statements[i].rows[r] = id}

\* C12: create on a non-bulk model with an auto-generated id inserts each
\* record with a statement of its own and sets the record's id to the row
\* id of that insert before any of its children is created, so that each
\* child carries its parent's id; afterwards the model and every created
\* record have action "update".
C12_CreateSetsIdBeforeChildren ==
    (wrote.op = "create" /\ Auto(Written)) =>
        LET creating == Each(Written, "create")
            inserts  == wrote.statements
            record(j) == obj.records[creating[j]]
        IN  /\ Len(inserts) >= Len(creating)
            /\ \A j \in 1..Len(creating) :
                  /\ inserts[j].sql = "INSERT"
                  /\ inserts[j].STORE = Written.STORE
                  /\ Len(inserts[j].rows) = 1
                  /\ record(j).id # None
                  /\ record(j).id = inserts[j].rows[1]
                  /\ \A i \in 1..Len(creating) : i # j => inserts[i].rows # inserts[j].rows
                  /\ record(j)._action = "update"
                  \* the children of the record: one statement, after the
                  \* inserts of all the records, every row with the id
                  /\ Len(record(j).kids) > 0 =>
                        \E i \in ChildInserts(record(j).id) :
                            /\ i > Len(creating)
                            /\ Len(inserts[i].rows) = Len(record(j).kids)
            /\ \A i \in 1..Len(inserts) :
                  inserts[i].STORE = "plain" =>
                      /\ i > Len(creating)
                      /\ \A r \in 1..Len(inserts[i].rows) :
                            \E j \in 1..Len(creating) :
                                /\ Len(record(j).kids) > 0
                                /\ inserts[i].rows[r] = record(j).id
            /\ obj._action = "update"

\* two records of Simple, each with a child, were created
C12_Witness ==
    /\ wrote.op = "create"
    /\ Auto(Written)
    /\ Len(Each(Written, "create")) = 2
    /\ \A k \in 1..2 : Len(Written.records[k].kids) = 1
    /\ Len(wrote.statements) = 4
    /\ wrote.statements[3].rows = <<obj.records[1].id>>
    /\ wrote.statements[4].rows = <<obj.records[2].id>>
    /\ obj.records[1].id # obj.records[2].id

\* ---------------------------------------------------- properties of search
\* the parent searches the last search made itself, not the nested ones
Direct ==
    {k \in 1..Len(search.lookups) : search.lookups[k].depth = 1}

\* a parent of the last search handed its overflow on: it found an id and
\* its own overflow was set
HandedOn ==
    \E k \in Direct : search.lookups[k].ids # <<>> /\ search.lookups[k].overflow

\* the limit was reached by the rows returned
LimitReached ==
    search.limit # None /\ search.rows >= search.limit[1]

\* C13 as stated: after a retrieve that returns a list of models with a
\* limit set, overflow is true if and only if it was already true or the
\* number of rows returned is at least the limit; a retrieve with no limit
\* leaves it unchanged.
C13_OverflowIffLimitReached ==
    search.op = "retrieve" =>
        search.overflow = (search.before \/ LimitReached)

\* C13, amended: after a retrieve that returns a list of models, overflow
\* is true if and only if it was already true, or a parent lookup of the
\* model's search handed its overflow on, or a limit is set and the number
\* of rows returned is at least the limit; a retrieve never resets overflow
\* from true to false, and a retrieve with no limit changes it only by what
\* the search hands on.
C13_OverflowIffHandedOnOrLimitReached ==
    search.op = "retrieve" =>
        /\ search.overflow = (search.before \/ HandedOn \/ LimitReached)
        /\ search.before => search.overflow

\* a retrieve whose overflow was set gave back fewer rows than its limit,
\* and kept the overflow
C13_Witness ==
    /\ search.op = "retrieve"
    /\ search.limit = Some(2)
    /\ search.rows = 1
    /\ search.before
    /\ ~HandedOn
    /\ search.overflow

\* the titles of the last search that are the child field of a relation
ChildTitles ==
    {k \in 1..Len(search.titles) : search.titles[k].child_field}

\* what the last search added for the field
PredicatesOn(name) ==
    {k \in 1..Len(search.predicates) : search.predicates[k].field = name}

\* the row of the class matches the term: by its name, or by its parent
RECURSIVE MatchesTerm(_, _)
MatchesTerm(c, i) ==
    /\ i \in 1..Len(tables[c])
    /\ \/ tables[c][i]
       \/ PARENTS[c] # None /\ MatchesTerm(PARENTS[c][1], i)

\* C14: for a title field that is the child field of a parent relation, the
\* search adds a membership predicate over the ids of at most chunk parent
\* rows matching the same term and no pattern match on the field itself;
\* when the parent search finds nothing the field adds no predicate, so an
\* empty IN list is never emitted.
C14_MembershipOverParentIds ==
    (search.op = "like" /\ search.like # None) =>
        /\ \A t \in ChildTitles :
              LET name == search.titles[t].name
                  P    == PARENTS[search.class][1]
                  all  == {i \in 1..Len(tables[P]) : MatchesTerm(P, i)}
              IN  /\ \A k \in PredicatesOn(name) : search.predicates[k].op = "IN"
                  /\ all = {} => PredicatesOn(name) = {}
                  /\ all # {} =>
                        /\ Cardinality(PredicatesOn(name)) = 1
                        /\ \A k \in PredicatesOn(name) :
                              LET ids == search.predicates[k].ids
                              IN  /\ Len(ids) = Min(search.chunk, Cardinality(all))
                                  /\ \A j \in 1..Len(ids) : ids[j] \in all
                                  /\ \A i, j \in 1..Len(ids) : i # j => ids[i] # ids[j]
        /\ \A k \in 1..Len(search.predicates) :
              search.predicates[k].op = "IN" => search.predicates[k].ids # <<>>

\* Test.many(like="p", _chunk=1) with two units that match: one id is in
\* the list
C14_Witness ==
    /\ search.op = "like"
    /\ search.class = "test"
    /\ search.titles = Own("test")
    /\ search.chunk = 1
    /\ Len(tables["unit"]) = 2
    /\ \A i \in 1..2 : MatchesTerm("unit", i)
    /\ search.predicates[1].op = "IN"
    /\ Len(search.predicates[1].ids) = 1

C16_NoPredicateWithoutPaths ==
    (search.op = "like" /\ search.like # None) =>
        \A t \in 1..Len(search.titles) :
            (/\ ~search.titles[t].child_field
             /\ search.titles[t].kind = "dict"
             /\ search.titles[t].path = <<>>
             /\ search.titles[t].titles = <<>>)
                => PredicatesOn(search.titles[t].name) = {}

\* C17: all the predicates of one search are in a single OR group that is
\* added to the query as one WHERE term; when no predicate is emitted (no
\* search term, zero title fields, or every title field skipped) no WHERE
\* term is added and the overflow flag is left false.
C17_OneWhereTermOrNone ==
    search.op = "like" =>
        /\ search.where <=> search.predicates # <<>>
        /\ search.like = None => search.predicates = <<>>
        /\ search.titles = <<>> => search.predicates = <<>>
        /\ search.predicates = <<>> => (~search.where /\ ~search.overflow)

\* the one title of a search is the child field, and no parent matches
C17_Witness ==
    /\ search.op = "like"
    /\ search.like # None
    /\ search.titles = <<ChildField("test")>>
    /\ Len(tables["unit"]) = 2
    /\ search.lookups # <<>>
    /\ search.predicates = <<>>
    /\ ~search.where
    /\ ~search.overflow

\* C18: a search reaches exactly one hop into parent relations: the depth
\* of nested parent searches triggered by one search is at most 1, whatever
\* the length of the ancestor chain.
C18_OneHop ==
    \A k \in 1..Len(search.lookups) : search.lookups[k].depth <= 1

\* ------------------------------------------------ properties of predicates
\* C19: for every criterion on a structured field, the predicate is routed
\* to the precomputed column (marked extracted) if and only if its nested
\* path, the criterion key without its operator suffix, is one of the
\* field's declared extraction paths; this holds for every operator,
\* default equality on a multi-segment path included.
C19_ExtractedIffPathDeclared ==
    compiled.op = "retrieve_field" =>
        (compiled.extracted <=> compiled.path \in compiled.extract)

\* C20: a set-membership predicate with an empty value list compiles to an
\* unconditional-false fragment with zero binds, and a set-exclusion
\* predicate with an empty value list to an unconditional-true fragment
\* with zero binds; with a non-empty list there is one placeholder and one
\* bind per value, in order.
C20_EmptyListsAreLiterals ==
    compiled.op = "in" =>
        IF compiled.values = <<>>
        THEN /\ compiled.sql = (IF compiled.exclusion THEN "TRUE" ELSE "FALSE")
             /\ compiled.placeholders = 0
             /\ compiled.binds = <<>>
        ELSE /\ compiled.sql = (IF compiled.exclusion THEN "NOT IN" ELSE "IN")
             /\ compiled.placeholders = Len(compiled.values)
             /\ compiled.binds = compiled.values

\* an exclusion with an empty list was compiled to TRUE
C20_Witness ==
    /\ compiled.op = "in"
    /\ compiled.exclusion
    /\ compiled.values = <<>>
    /\ compiled.sql = "TRUE"
    /\ compiled.binds = <<>>

\* ------------------------------- properties of definitions and migrations
\* where the statements of the last compilation have the op
Positions(op) ==
    {i \in 1..Len(ddl.statements) : ddl.statements[i].op = op}

\* the one statement of the last compilation that has the op
The(op) ==
    ddl.statements[CHOOSE i \in Positions(op) : TRUE]

\* the last compilation was of a migration that removes or changes a field
RemovesOrChanges ==
    /\ ddl.op = "modify"
    /\ \/ ddl.migration[1].fields.remove # {}
       \/ DOMAIN ddl.migration[1].fields.change # {}

\* C21: a migration that removes or changes a field compiles to exactly one
\* rename to the temporary name, one CREATE TABLE, one INSERT ... SELECT and
\* one DROP TABLE of the temporary name, in that order, with every ALTER
\* TABLE ... ADD before the rename and every DROP INDEX before the CREATE
\* TABLE.
C21_RebuildOnceInOrder ==
    RemovesOrChanges =>
        /\ \A op \in {"RENAME TO", "CREATE TABLE", "INSERT SELECT", "DROP TABLE"} :
              Cardinality(Positions(op)) = 1
        /\ The("RENAME TO").to = Old(ddl.definition[1].table)
        /\ The("INSERT SELECT").to = The("RENAME TO").to
        /\ The("DROP TABLE").name = The("RENAME TO").to
        /\ \A r \in Positions("RENAME TO"), c \in Positions("CREATE TABLE"),
              s \in Positions("INSERT SELECT"), d \in Positions("DROP TABLE") :
              /\ r < c /\ c < s /\ s < d
              /\ \A a \in Positions("ADD") : a < r
              /\ \A x \in Positions("DROP INDEX") : x < c

\* a migration that removes a field, adds another and drops an index
C21_Witness ==
    /\ RemovesOrChanges
    /\ ddl.migration[1].fields.remove # {}
    /\ Positions("ADD") # {}
    /\ Positions("DROP INDEX") # {}

\* the last compilation was of a migration that only adds fields
AddsOnly ==
    /\ ddl.op = "modify"
    /\ ddl.migration[1].fields.add # <<>>
    /\ ddl.migration[1].table = None
    /\ ddl.migration[1].fields.remove = {}
    /\ DOMAIN ddl.migration[1].fields.change = {}
    /\ \A migrated_ \in {ddl.migration[1].unique, ddl.migration[1].index} :
          /\ DOMAIN migrated_.add = {}
          /\ migrated_.remove = {}
          /\ DOMAIN migrated_.rename = {}

\* the number of columns the fields add: one for the field and one for
\* each of its extraction paths, none for an injected field
RECURSIVE AddedColumns(_)
AddedColumns(fields) ==
    IF fields = <<>>
    THEN 0
    ELSE (IF Head(fields).inject THEN 0 ELSE 1 + Len(Head(fields).extract))
         + AddedColumns(Tail(fields))

\* C22: a migration that only adds fields compiles to ALTER TABLE ... ADD
\* statements and nothing else: one for each added field and one more for
\* each extraction path of an added field, none for an injected field.
C22_AddsOnlyAlterAdd ==
    AddsOnly =>
        /\ \A i \in 1..Len(ddl.statements) :
              /\ ddl.statements[i].op = "ADD"
              /\ ddl.statements[i].name = ddl.definition[1].table
        /\ Len(ddl.statements) = AddedColumns(ddl.migration[1].fields.add)

\* a migration that adds an extracted field and an injected field only
C22_Witness ==
    /\ AddsOnly
    /\ \E i, j \in 1..Len(ddl.migration[1].fields.add) :
          /\ ddl.migration[1].fields.add[i].extract # <<>>
          /\ ddl.migration[1].fields.add[j].inject
    /\ Len(ddl.statements) = 1 + Len(Str.paths)

\* the last compilation was of a migration that rebuilds the table
Rebuilt ==
    /\ ddl.op = "modify"
    /\ Positions("RENAME TO") # {}

\* the constraints the statements of the last compilation create with op,
\* as the index names and their columns
CreatedBy(op) ==
    {<<ddl.statements[i].name, ddl.statements[i].columns>> : i \in Positions(op)}

\* the constraints the specification expects on the new table: the before-state
\* ones that are not removed, renamed, and those to add
Expected(constraints, migrated_, table_) ==
    {<<IndexName(table_, IF n \in DOMAIN migrated_.rename
                         THEN migrated_.rename[n] ELSE n), constraints[n]>> :
        n \in DOMAIN constraints \ migrated_.remove}
    \cup {<<IndexName(table_, n), migrated_.add[n]>> : n \in DOMAIN migrated_.add}

\* C23: in a migration that rebuilds the table, the unique constraints and
\* the indexes created on the new table are the before-state ones minus
\* those removed, under the names the rename maps give them, plus those to
\* add; and every before-state unique constraint and index is dropped
\* before the new table is created.
C23_ConstraintsRenamedAndAdded ==
    Rebuilt =>
        LET definition == ddl.definition[1]
            migration == ddl.migration[1]
            new == The("CREATE TABLE").name
        IN  /\ CreatedBy("CREATE UNIQUE INDEX")
                   = Expected(definition.unique, migration.unique, new)
            /\ CreatedBy("CREATE INDEX")
                   = Expected(definition.index, migration.index, new)
            /\ \A n \in DOMAIN definition.unique \cup DOMAIN definition.index :
                  \E x \in Positions("DROP INDEX") :
                      /\ ddl.statements[x].name = IndexName(definition.table, n)
                      /\ \A c \in Positions("CREATE TABLE") : x < c

\* C24: the INSERT ... SELECT of a rebuild copies the columns that the
\* table being replaced (with the columns the preceding ALTER TABLE ... ADD
\* statements gave it) and the new table both have, each under its own
\* name, in lexicographic order.
C24_CopiesCommonColumnsSorted ==
    Rebuilt =>
        LET copied == The("INSERT SELECT").columns
            replaced == Range(ColumnsOf(ddl.definition[1].fields))
                        \cup {ddl.statements[a].columns[1] : a \in Positions("ADD")}
        IN  /\ Range(copied) = replaced \cap Range(The("CREATE TABLE").columns)
            /\ \A i, j \in 1..Len(copied) : i < j => LexLess(copied[i], copied[j])

\* a rebuild that adds a column, takes one away and gives one another
\* name, so that both tables have columns the other lacks, and whose new
\* table does not list its columns in lexicographic order
C24_Witness ==
    /\ Rebuilt
    /\ Positions("ADD") # {}
    /\ LET copied == Range(The("INSERT SELECT").columns)
           created == The("CREATE TABLE").columns
       IN  /\ Range(created) \ copied # {}
           /\ Range(ColumnsOf(ddl.definition[1].fields)) \ copied # {}
           /\ \E i, j \in 1..Len(created) :
                 /\ i < j
                 /\ created[i] \in copied
                 /\ created[j] \in copied
                 /\ LexLess(created[j], created[i])

\* C25: the statements of a definition can be executed again: every one of
\* them, the creation of the unique indexes and of the indexes included,
\* has IF NOT EXISTS, so that the second execution succeeds and changes
\* nothing.
C25_DefinitionExecutesTwice ==
    (ddl.op = "define" /\ ddl.ran >= 2) =>
        /\ \A i \in 1..Len(ddl.statements) : ddl.statements[i].guarded
        /\ ddl.ended = "returned"
        /\ ~ddl.changed

\* ------------------------------------------------- properties of queries
\* C26: the columns of the INSERT of a create query hold no auto field and
\* no injected field, and the SET of an update query holds neither.
C26_NoAutoNoInjected ==
    query.op \in {"INSERT", "UPDATE"} =>
        \A c \in 1..Len(query.columns) :
            /\ ~query.fields[query.columns[c]].auto
            /\ ~query.fields[query.columns[c]].inject

\* an update of a model whose id is auto, with the id and an injected
\* field among the changed fields, that sets something
C26_Witness ==
    /\ query.op = "UPDATE"
    /\ query.columns # <<>>
    /\ \E i, j \in query.changed :
          /\ query.fields[i].auto
          /\ query.fields[j].inject

\* ------------------------------------------------- properties of execute
\* the commands of the last execute that are not blank
NonBlank ==
    {k \in 1..Len(executed.commands) :
        \E i \in 1..Len(executed.commands[k]) : executed.commands[k][i] \notin {32, 10}}

\* the events of the last execute that have the op
EventsOf(op) ==
    {e \in 1..Len(executed.events) : executed.events[e].op = op}

\* the commands with the terminator put back between them
RECURSIVE Joined(_)
Joined(commands) ==
    IF Len(commands) = 1
    THEN commands[1]
    ELSE commands[1] \o <<59, 10>> \o Joined(Tail(commands))

\* C27: execute runs the commands that are not blank in order (a string is
\* first split on the statement terminator), passes over the blank ones and
\* commits once after the last; if a command fails the error ends the call:
\* no later command is executed, none is executed again, and execute does
\* not commit.
C27_ExecuteInOrderCommitOnce ==
    executed.events # <<>> =>
        LET ev == executed.events
        IN  /\ Joined(executed.commands) = executed.text
            /\ \A k \in 1..Len(executed.commands) :
                  \A i \in 1..(Len(executed.commands[k]) - 1) :
                      ~(executed.commands[k][i] = 59 /\ executed.commands[k][i + 1] = 10)
            /\ \A e \in EventsOf("exec") \cup EventsOf("fail") : ev[e].cmd \in NonBlank
            /\ \A e, f \in EventsOf("exec") \cup EventsOf("fail") :
                  e < f => ev[e].cmd < ev[f].cmd
            /\ IF executed.failAt = 0
               THEN /\ {ev[e].cmd : e \in EventsOf("exec")} = NonBlank
                    /\ EventsOf("fail") = {}
                    /\ EventsOf("commit") = {Len(ev)}
               ELSE /\ {ev[e].cmd : e \in EventsOf("exec")}
                           = {k \in NonBlank : k < executed.failAt}
                    /\ EventsOf("fail") = {Len(ev)}
                    /\ ev[Len(ev)].cmd = executed.failAt
                    /\ EventsOf("commit") = {}

\* a text whose first command fails and is followed by one that is not
\* blank
C27_Witness ==
    /\ executed.failAt = 1
    /\ 2 \in NonBlank

\* --------------------------------------------------- properties of update
\* C28: update returns the number of rows changed by the statements it
\* executed: by id, the sum over the records of the rows changed by the
\* statement of each, and nothing for a record that had nothing to set.
C28_ReturnsRowsChanged ==
    (wrote.op = "update" /\ wrote.ended = "return") =>
        wrote.returned = RowCounts(store, wrote.statements)

\* ------------------------------------------- properties of the cold start
\* the runs that executed or tried a command of the baseline file
BaselineRuns ==
    {log[k].run : k \in {j \in 1..Len(log) :
                            log[j].file = Baseline /\ log[j].op \in {"exec", "fail"}}}

\* C29: after a cold start the ledger is not empty, even when there is no
\* migration file, because the marker row "definition" is recorded in the
\* batch of the stamps; hence over the migrate runs, made one after the
\* other, the baseline file is executed at most once.
C29_MarkerKeepsLedgerNonEmpty ==
    /\ \A n \in Runs :
          (Listed(n) /\ Len(stamps[n]) = 0 /\ pc[n] # "bulk")
          => /\ ledger # <<>>
             /\ Recorded(ledger, DefinitionMarker) >= 1
             /\ Events(n)[1].op = "insert"
             /\ \E i \in 1..Len(Events(n)[1].rows) :
                   Events(n)[1].rows[i] = DefinitionMarker
    /\ Cardinality(BaselineRuns) <= 1
    /\ \A c \in 1..NumStmts : Cardinality(Executions(Baseline, c)) <= 1

\* a cold start over no migration file that returned, followed by a run
\* over no migration file that returned false
C29_Witness ==
    /\ paths[1] = <<>>
    /\ result[1] = "true"
    /\ paths[2] = <<>>
    /\ pc[2] = "done"
    /\ result[2] = "false"
    /\ BaselineRuns = {1}

\* run m, which follows a run whose baseline failed after it had recorded
\* the rows of batch, found the ledger not empty and executed neither the
\* baseline nor the payload of a stamp of the batch
AfterFailedBaseline(m, batch) ==
    /\ Len(stamps[m]) > 0
    /\ \A e \in 1..Len(Events(m)) :
          /\ Events(m)[e].file # Baseline
          /\ \A i \in 1..Len(batch) : StampOf(Events(m)[e].file) # batch[i]

\* the rows of the batch are in the ledger, and the batch was inserted
\* before the first command of the baseline
BatchRecorded(n, batch) ==
    /\ Events(n)[1].op = "insert"
    /\ \A i \in 1..Len(batch) : Recorded(ledger, batch[i]) >= 1

\* C30 as stated: when the baseline of a cold start fails, the rows of the
\* batch stay recorded, and every later run finds the ledger not empty,
\* returns false and executes neither the baseline nor the payload of a
\* stamp of the batch.
C30_LaterRunsReturnFalse ==
    \A p \in 1..Len(log) :
        (log[p].op = "fail" /\ log[p].file = Baseline)
        => LET n == log[p].run
               batch == Events(n)[1].rows
           IN  /\ BatchRecorded(n, batch)
               /\ \A m \in Runs :
                     (m > n /\ Listed(m))
                     => /\ AfterFailedBaseline(m, batch)
                        /\ pc[m] = "done" => result[m] = "false"

\* C30: when the baseline of a cold start fails, the rows of the batch
\* stay recorded, and every later run finds the ledger not empty and
\* executes neither the baseline nor the payload of a stamp of the batch;
\* it returns false if every migration file it lists has its stamp in the
\* ledger, and true if it has applied one that had not.
C30_LaterRunsSkipTheBatch ==
    \A p \in 1..Len(log) :
        (log[p].op = "fail" /\ log[p].file = Baseline)
        => LET n == log[p].run
               batch == Events(n)[1].rows
           IN  /\ BatchRecorded(n, batch)
               /\ \A m \in Runs :
                     (m > n /\ Listed(m))
                     => /\ AfterFailedBaseline(m, batch)
                        /\ pc[m] = "done"
                           => (result[m] = "false"
                               <=> \A f \in Known(m) :
                                      \E i \in 1..Len(stamps[m]) :
                                          stamps[m][i] = StampOf(f))

\* the baseline of a cold start over a migration file failed, and the run
\* that followed over the same files returned false
C30_Witness ==
    \E p \in 1..Len(log) :
        /\ log[p].op = "fail"
        /\ log[p].file = Baseline
        /\ log[p].run = 1
        /\ Len(paths[1]) >= 1
        /\ paths[2] = paths[1]
        /\ pc[2] = "done"
        /\ result[2] = "false"

====
